---- MODULE Spec2Model ----
(***************************************************************************)
(* Query-to-ranked-passages pipeline of perplexity-for-pdfs.               *)
(*                                                                         *)
(* The module models src/actions/search.ts (processQuery and its helpers), *)
(* the GoogleSearchAPI of services/google-search.ts, createSemanticCacheKey*)
(* of service/utils.ts and PDFProcessor of src/service/pdf-processor.ts.   *)
(* Redis, the search provider, the validation probe, the PDF fetcher, the  *)
(* embedding service and the two vector stores are the environment: every  *)
(* call to one of them either answers or fails, chosen nondeterministically*)
(***************************************************************************)
EXTENDS Integers, Sequences, FiniteSets, TLC

\* ------------------------------------------------------------------ bounds

\* processQuery invocations explored in one behaviour of Spec.
MaxCalls == 2

\* collaborator calls that fail (reject or throw) in one behaviour of Spec.
MaxFaults == 1

\* distinct queries submitted, in order of first submission, in SpecRecent.
NumDistinct == 12

\* resubmissions plus failed list operations explored in one behaviour of
\* SpecRecent.
MaxIrregular == 1

\* candidates handed to validatePDFResults in SpecValidate.
MaxCandidates == 3

\* successful stores of one group of pages in a tier in SpecRetrieve.
MaxCopies == 2

\* createSemanticCacheKey calls in one behaviour of SpecKey.
MaxKeyCalls == 2

\* pages of the longest document findRelevantPages is given in SpecFanOut.
MaxPages == 101

\* addToRecentSearches calls of one caller in SpecConcurrent.
MaxAdds == 2

\* getEmbeddingWithCache calls made one after the other
MaxEmbedCalls == 2

\* ------------------------------------------------------- program constants

\* redis.ltrim(recentSearchesKey, 0, 9)
RecentStart == 0
RecentStop == 9

\* the createSemanticCacheKey calls made on their own: [query, options, key]
VARIABLE keyLog

\* ------------------------------------------------------------------ helpers

Min(a, b) == IF a <= b THEN a ELSE b

Range(s) == {s[i] : i \in 1..Len(s)}

NoDuplicates(s) == \A i, j \in 1..Len(s) : i # j => s[i] # s[j]

\* F applied to the value of e, which is evaluated once
Bind(e, F(_)) == CHOOSE r \in {F(x) : x \in {e}} : TRUE

\* --------------------------------------------------- Redis list operations

\* LREM key 0 value: removes every occurrence of value.
Lrem(list, q) == SelectSeq(list, LAMBDA x : x # q)

\* LPUSH key value: inserts value at the head.
Lpush(list, q) == <<q>> \o list

\* LTRIM key start stop: keeps the elements start..stop (0-based, inclusive).
Ltrim(list, start, stop) == SubSeq(list, start + 1, Min(Len(list), stop + 1))

\* Where a call of addToRecentSearches can fail: one of its three awaited
\* list operations rejects, or none does.
FailPoints == {"none", "lrem", "lpush", "ltrim"}

\* addToRecentSearches without the lrem that removes the prior occurrence.
addToRecentSearches_NoLrem(list, q, failAt) ==
    IF failAt = "lrem" THEN list
    ELSE IF failAt = "lpush" THEN list
    ELSE IF failAt = "ltrim" THEN Lpush(list, q)
    ELSE Ltrim(Lpush(list, q), RecentStart, RecentStop)

\* addToRecentSearches: lrem, lpush, ltrim in sequence inside one try block;
\* the first rejection skips the rest and is logged by the catch.
addToRecentSearches(list, q, failAt) ==
    IF failAt = "lrem" THEN list
    ELSE IF failAt = "lpush" THEN Lrem(list, q)
    ELSE IF failAt = "ltrim" THEN Lpush(Lrem(list, q), q)
    ELSE Ltrim(Lpush(Lrem(list, q), q), RecentStart, RecentStop)

\* ------------------------------------------------------- query and its key

\* A query is a sequence of characters; these are the queries processQuery is
\* called with: the empty string, a blank, and two spellings of one word.
Queries == { <<>>, <<" ">>, <<"a">>, <<" ", "A">> }

\* the characters toLowerCase changes, with what it makes of them
UpperCase == [A |-> "a", B |-> "b", P |-> "p", Q |-> "q"]

Lower(c) == IF c \in DOMAIN UpperCase THEN UpperCase[c] ELSE c

\* \s: the blank and the tab
IsSpace(c) == c \in {" ", "\t"}

RECURSIVE TrimStart(_)
TrimStart(s) ==
    IF s # <<>> /\ IsSpace(s[1]) THEN TrimStart(Tail(s)) ELSE s

RECURSIVE TrimEnd(_)
TrimEnd(s) ==
    IF s # <<>> /\ IsSpace(s[Len(s)]) THEN TrimEnd(SubSeq(s, 1, Len(s) - 1)) ELSE s

\* String.prototype.trim
Trim(s) == TrimEnd(TrimStart(s))

\* String.prototype.toLowerCase
ToLowerCase(s) == [i \in 1..Len(s) |-> Lower(s[i])]

\* replace(/\s+/g, " "): every run of whitespace becomes one space
RECURSIVE CollapseWhitespace(_)
CollapseWhitespace(s) ==
    IF s = <<>> THEN <<>>
    ELSE IF IsSpace(s[1])
         THEN <<" ">> \o CollapseWhitespace(TrimStart(s))
         ELSE <<s[1]>> \o CollapseWhitespace(Tail(s))

\* a normalization that leaves the runs of white space as they are
NormalizeQuery_NoCollapse(query) == ToLowerCase(Trim(query))

\* query.trim().toLowerCase().replace(/\s+/g, " ")
NormalizeQuery(query) == CollapseWhitespace(ToLowerCase(Trim(query)))

\* nlp(normalizedQuery) of compromise: every character that is not white
\* space stands for one word of the text, tagged by the lexicon below.
\* p, q, r, s are named entities (topics, which are nouns too), a and b
\* common nouns, v and w verbs, n a negation, o the word "who", h the word
\* "how", ? the question mark, x a word with none of these tags.
Terms(text) == SelectSeq(text, LAMBDA c : ~IsSpace(c))

IsTopic(w) == w \in {"p", "q", "r", "s"}

IsNoun(w) == IsTopic(w) \/ w \in {"a", "b"}

IsVerb(w) == w \in {"v", "w"}

\* doc.topics().out("array"), doc.nouns().out("array"),
\* doc.verbs().out("array"): the matches in the order they occur in the text
Topics(text) == SelectSeq(Terms(text), IsTopic)

Nouns(text) == SelectSeq(Terms(text), IsNoun)

Verbs(text) == SelectSeq(Terms(text), IsVerb)

\* doc.questions().out("array").length > 0
Questions(text) == \E i \in 1..Len(text) : text[i] = "?"

\* doc.has(word)
Has(text, w) == \E i \in 1..Len(text) : text[i] = w

\* doc.has("#Negative")
IsNegative(text) == Has(text, "n")

\* the first of who, what, where, when, why, how the text of a question has
QuestionType(text) ==
    IF ~Questions(text) THEN ""
    ELSE IF Has(text, "o") THEN "who"
    ELSE IF Has(text, "h") THEN "how"
    ELSE ""

\* Array.prototype.slice(0, n)
Slice(s, n) == SubSeq(s, 1, Min(Len(s), n))

\* the order of the UTF-16 code units of the words, which the default
\* comparison of Array.prototype.sort uses
CodeUnits ==
    <<"?", "a", "b", "h", "n", "o", "p", "q", "r", "s", "v", "w", "x">>

CodeUnit(w) == CHOOSE i \in 1..Len(CodeUnits) : CodeUnits[i] = w

\* w put in its place in the sorted list
InsertWord(sorted, w) ==
    LET k == Cardinality({i \in 1..Len(sorted) : CodeUnit(sorted[i]) <= CodeUnit(w)})
    IN  SubSeq(sorted, 1, k) \o <<w>> \o SubSeq(sorted, k + 1, Len(sorted))

\* Array.prototype.sort() of a list of words
RECURSIVE SortWords(_)
SortWords(list) ==
    Bind(list, LAMBDA l :
        IF l = <<>> THEN <<>>
        ELSE Bind(SortWords(SubSeq(l, 1, Len(l) - 1)),
                  LAMBDA sorted : InsertWord(sorted, l[Len(l)])))

\* the semantic object: the first 3 entities, 5 nouns and 3 verbs, each list
\* sorted after it was cut, the question type, the negation and the version
SemanticObject(text, semanticVersion) ==
    [entities |-> SortWords(Slice(Topics(text), 3)),
     nouns |-> SortWords(Slice(Nouns(text), 5)),
     verbs |-> SortWords(Slice(Verbs(text), 3)),
     questionType |-> QuestionType(text),
     isNegative |-> IsNegative(text),
     version |-> semanticVersion]

\* the options of createSemanticCacheKey and their defaults; a context is
\* the function from the properties it has to their values
EmptyContext == [f \in {} |-> ""]

DefaultOptions ==
    [context |-> EmptyContext, useSemanticKey |-> TRUE, semanticVersion |-> 1]

\* const { userId = "", ... } = context
ContextValue(context, f, default) ==
    IF f \in DOMAIN context THEN context[f] ELSE default

\* a context signature that keeps the time window in hours
ContextSignature_Hours(context) ==
    [present |-> DOMAIN context # {},
     userId |-> ContextValue(context, "userId", ""),
     language |-> ContextValue(context, "language", "en"),
     domain |-> ContextValue(context, "domain", "general"),
     timeWindow |-> IF DOMAIN context = {} THEN 0
                    ELSE ContextValue(context, "timeWindow", 0)]

\* the context signature: none for a context without properties, else the
\* first 8 hex digits of the MD5 of the serialized context object
ContextSignature(context) ==
    [present |-> DOMAIN context # {},
     userId |-> ContextValue(context, "userId", ""),
     language |-> ContextValue(context, "language", "en"),
     domain |-> ContextValue(context, "domain", "general"),
     timeWindow |-> IF DOMAIN context = {} THEN 0
                    ELSE ContextValue(context, "timeWindow", 0) \div 24]

\* a key that takes the number of the keys derived before for its version
createSemanticCacheKey_Counting(query, options) ==
    [prefix |-> IF options.useSemanticKey THEN "sem" ELSE "txt",
     signature |->
         IF options.useSemanticKey
         THEN <<"object", SemanticObject(NormalizeQuery(query), Len(keyLog))>>
         ELSE <<"text", NormalizeQuery(query)>>,
     context |-> ContextSignature(options.context)]

\* createSemanticCacheKey(query, options): the prefix "sem" or "txt", the
\* first 16 hex digits of the SHA-256 of the serialized semantic object or of
\* the normalized query, and the context signature.  The digests are
\* modelled as collision free: a signature stands for the value it hashes.
createSemanticCacheKey(query, options) ==
    [prefix |-> IF options.useSemanticKey THEN "sem" ELSE "txt",
     signature |->
         IF options.useSemanticKey
         THEN <<"object", SemanticObject(NormalizeQuery(query),
                                         options.semanticVersion)>>
         ELSE <<"text", NormalizeQuery(query)>>,
     context |-> ContextSignature(options.context)]

\* the number of hex digits of digest("hex"): 64 for SHA-256, 32 for MD5
HexDigestLength(algorithm) == IF algorithm = "sha256" THEN 64 ELSE 32

\* the length of String.prototype.substring(0, n) of a text of len characters
SubstringLength(len, n) == Min(len, n)

\* a key text without the separator in front of the context signature
KeyText_NoContext(key) ==
    <<key.prefix, "_",
      [hex |-> SubstringLength(HexDigestLength("sha256"), 16), of |-> key.signature]>>

\* the template string createSemanticCacheKey returns, as the list of its
\* parts: `${keyPrefix}_${querySignature}_ctx${contextSignature}` when the
\* context signature is not the empty string, `${keyPrefix}_${querySignature}`
\* when it is; a signature is the number of its hex digits and what it hashes
KeyText(key) ==
    <<key.prefix, "_",
      [hex |-> SubstringLength(HexDigestLength("sha256"), 16), of |-> key.signature]>>
    \o (IF key.context.present
        THEN <<"_ctx",
               [hex |-> SubstringLength(HexDigestLength("md5"), 8), of |-> key.context]>>
        ELSE <<>>)

\* the Redis key under which processQuery caches its result
QueryCacheKey(query) ==
    <<"query:", createSemanticCacheKey(query, DefaultOptions)>>

\* searchPDFs: the query sent to the search API, and the Redis key of its
\* cached answer, `google:${pdfQuery}:${limit}`
GoogleCacheKey(query) == <<"google:", query, "filetype:pdf", 3>>

\* --------------------------------------------------------------- documents

\* The web as the collaborators see it: the PDF URLs, what the search API
\* answers, and the number of pages the loader extracts from each URL.
Urls == {"u1", "u2"}

SearchIndex(query) ==
    IF Trim(query) = <<>> THEN <<"u1">> ELSE <<"u1", "u2">>

NumPages(u) == IF u = "u1" THEN 2 ELSE 51

\* a GoogleSearchResult
Candidate(u) ==
    [link |-> u, title |-> <<"title", u>>, snippet |-> <<"snippet", u>>,
     thumbnail |-> IF u = "u1" THEN "" ELSE "thumb"]

\* documents.length > 50, slice(i, i + 50)
GroupSize == 50

NumGroups(u) ==
    IF NumPages(u) > GroupSize
    THEN (NumPages(u) + GroupSize - 1) \div GroupSize
    ELSE 1

\* the group that holds page p: chunks.push(documents.slice(i, i + 50)) for
\* i = 0, 50, 100, ..., or the whole list when the document is not split
GroupOf(u, p) ==
    IF NumPages(u) > GroupSize THEN (p - 1) \div GroupSize + 1 ELSE 1

\* Similarity of a page's chunk to the query (higher is more relevant): a
\* fixed function of the texts, different for different pages of a document
\* and not monotone in the page number.
Score(query, u, p) == (p * 20 + Len(query)) % 53

Passage(query, u, p) ==
    [pdfUrl |-> u, pageNumber |-> p, score |-> Score(query, u, p)]

\* Score is a bijection between the pages 1..52 and the scores, so the page
\* that has score v for the query is found by inverting it (20 * 8 = 1 mod 53);
\* it is 0 or beyond the last page when no page of the document has score v.
PageWithScore(query, v) == ((v + 53 - Len(query)) * 8) % 53

\* the k best entries among the pages with score v or less, every page as
\* often as the store holds its chunk
TopKFrom(query, u, copies, k, v) ==
    LET from[kv \in (0..k) \X (-1..v)] ==
            IF kv[1] = 0 \/ kv[2] < 0 THEN <<>>
            ELSE LET p == PageWithScore(query, kv[2])
                     n == IF p \in DOMAIN copies THEN Min(copies[p], kv[1]) ELSE 0
                 IN  [j \in 1..n |-> Passage(query, u, p)]
                     \o from[<<kv[1] - n, kv[2] - 1>>]
    IN  from[<<k, v>>]

\* similaritySearchWithScore(query, k, filter pdfUrl = u) over a store that
\* holds copies[p] copies of the chunk of page p of u: the k best by score.
TopK(query, u, copies, k) ==
    Bind(copies, LAMBDA c : TopKFrom(query, u, c, k, 52))

\* ----------------------------------------------------------- serialization

\* a serialization that tags every passage with the title of the first
\* search result, whatever pdf it was asked for
serializeDocuments_FirstTitle(documents, pdf) ==
    [i \in 1..Len(documents) |->
        [pdfUrl |-> documents[i].pdfUrl,
         pageNumber |-> documents[i].pageNumber,
         score |-> documents[i].score,
         title |-> Candidate("u1").title, snippet |-> pdf.snippet,
         thumbnail |-> pdf.thumbnail]]

\* PDFProcessor.serializeDocuments: each [doc, score] pair flattened and
\* tagged with the title, snippet and thumbnail of the pdf it was asked for.
serializeDocuments(documents, pdf) ==
    [i \in 1..Len(documents) |->
        [pdfUrl |-> documents[i].pdfUrl,
         pageNumber |-> documents[i].pageNumber,
         score |-> documents[i].score,
         title |-> pdf.title, snippet |-> pdf.snippet,
         thumbnail |-> pdf.thumbnail]]

\* x put behind the last element of the sorted list whose page is not larger
InsertByPage(sorted, x) ==
    LET k == Cardinality({i \in 1..Len(sorted) :
                              sorted[i].pageNumber <= x.pageNumber})
    IN  SubSeq(sorted, 1, k) \o <<x>> \o SubSeq(sorted, k + 1, Len(sorted))

\* .sort((a, b) => a.pageNumber - b.pageNumber), a stable sort
RECURSIVE SortByPageNumber(_)
SortByPageNumber(pages) ==
    Bind(pages, LAMBDA ps :
        IF ps = <<>> THEN <<>>
        ELSE Bind(SortByPageNumber(SubSeq(ps, 1, Len(ps) - 1)),
                  LAMBDA sorted : InsertByPage(sorted, ps[Len(ps)])))

\* the mapping of serializeResults without its sort
RelevantPagesUnsorted(results) ==
    [i \in 1..Len(results) |->
        [pageNumber |-> results[i].pageNumber, score |-> results[i].score,
         pdfUrl |-> results[i].pdfUrl]]

\* the pages of serializeResults left in the order they were retrieved in
RelevantPages_Unsorted(results) == RelevantPagesUnsorted(results)

\* serializeResults: results.map(...).sort(by pageNumber)
RelevantPages(results) == SortByPageNumber(RelevantPagesUnsorted(results))

\* serializeResults(results), for a non-empty results; results[0] of an empty
\* list is undefined and reading its metadata throws a TypeError.
serializeResults(results) ==
    [pdfUrl |-> results[1].pdfUrl, title |-> results[1].title,
     snippet |-> results[1].snippet, thumbnail |-> results[1].thumbnail,
     relevantPages |-> RelevantPages(results)]

\* JSON.stringify of a PDFSearchResult[]: the text is modelled by the nested
\* tuples of its values in the order the properties are written.
JSONstringify(list) ==
    [i \in 1..Len(list) |->
        <<list[i].pdfUrl, list[i].title, list[i].snippet, list[i].thumbnail,
          [j \in 1..Len(list[i].relevantPages) |->
              <<list[i].relevantPages[j].pageNumber,
                list[i].relevantPages[j].score,
                list[i].relevantPages[j].pdfUrl>>]>>]

\* a text that is not JSON, such as one cut short: no element of it has the
\* five values JSON.stringify writes for a PDFSearchResult
Truncated == << <<>> >>

\* JSON.parse returns a value for the text; it throws a SyntaxError otherwise
Deserializable(text) == \A i \in 1..Len(text) : Len(text[i]) = 5

\* a parse that takes the snippet for the title and the title for the snippet
JSONparse_Swapped(text) ==
    [i \in 1..Len(text) |->
        [pdfUrl |-> text[i][1], title |-> text[i][3], snippet |-> text[i][2],
         thumbnail |-> text[i][4],
         relevantPages |->
             [j \in 1..Len(text[i][5]) |->
                 [pageNumber |-> text[i][5][j][1], score |-> text[i][5][j][2],
                  pdfUrl |-> text[i][5][j][3]]]]]

\* JSON.parse of a text written by JSON.stringify
JSONparse(text) ==
    [i \in 1..Len(text) |->
        [pdfUrl |-> text[i][1], title |-> text[i][2], snippet |-> text[i][3],
         thumbnail |-> text[i][4],
         relevantPages |->
             [j \in 1..Len(text[i][5]) |->
                 [pageNumber |-> text[i][5][j][1], score |-> text[i][5][j][2],
                  pdfUrl |-> text[i][5][j][3]]]]]

\* -------------------------------------------------------------- validation

\* What one axios.head(result.link, {timeout: 5000, validateStatus}) can do.
ProbeOutcomes ==
    { [kind |-> "response", status |-> 200, contentType |-> "application/pdf"],
      [kind |-> "response", status |-> 200,
       contentType |-> "application/pdf; charset=binary"],
      [kind |-> "response", status |-> 200, contentType |-> "text/html"],
      [kind |-> "response", status |-> 200, contentType |-> "none"],
      [kind |-> "response", status |-> 404, contentType |-> "application/pdf"],
      [kind |-> "timeout", status |-> 0, contentType |-> "none"],
      [kind |-> "error", status |-> 0, contentType |-> "none"] }

\* contentType && contentType.includes("application/pdf")
IncludesPdf(contentType) ==
    contentType \in {"application/pdf", "application/pdf; charset=binary"}

\* the probe resolves (validateStatus: status === 200) and the header names
\* a PDF; any other outcome rejects or fails the test and is skipped
ProbeAccepts(o) ==
    /\ o.kind = "response"
    /\ o.status = 200
    /\ IncludesPdf(o.contentType)

\* an iteration that puts the accepted candidate in front of the others
ValidateOne_Prepend(kept, candidate, o) ==
    IF ProbeAccepts(o) THEN <<candidate>> \o kept ELSE kept

\* one iteration of the for loop of validatePDFResults: validResults.push
\* when the probe is accepted, nothing when it is not or when it throws
ValidateOne(kept, candidate, o) ==
    IF ProbeAccepts(o) THEN Append(kept, candidate) ELSE kept

\* validatePDFResults(results), outcomes[i] being the answer to the i-th probe
RECURSIVE validatePDFResults(_, _)
validatePDFResults(results, outcomes) ==
    IF results = <<>> THEN <<>>
    ELSE ValidateOne(
             validatePDFResults(SubSeq(results, 1, Len(results) - 1), outcomes),
             results[Len(results)], outcomes[Len(results)])

\* ---------------------------------------------------------------- variables

VARIABLES
    recent,         \* the Redis list "recent_searches", head first
    history,        \* the addToRecentSearches calls made so far: [q, failAt]
    queryCache,     \* Redis: key -> [present, text] of the "query:" entries
    googleCache,    \* Redis: the "google:" keys that hold a cached answer
    durable,        \* Pinecone: url -> copies of the document's chunks stored
    memory,         \* memoryVectorStore: url -> group -> copies stored
    pendingWrites,  \* redis.set calls of processQuery not yet settled
    pendingStores,  \* url -> durable storePdfEmbeddings calls not yet settled
    nCalls,         \* processQuery calls started so far
    pc,             \* where the current processQuery call is
    query,          \* its argument
    calls,          \* the collaborators it has called so far
    log,            \* what it has written to the console so far
    validPDFs,      \* the links of the candidates that passed validation
    bst,            \* url -> state of the processPdf branch of the call
    bres,           \* url -> what the branch returned
    result,         \* [status, value]: how the call settled
    last,           \* [query, result] of the call before the current one
    faults,         \* collaborator calls that have failed so far
    searchResults,  \* validatePDFResults: its argument `results`
    idx,            \* validatePDFResults: position of the for loop
    validResults,   \* validatePDFResults: the candidates kept so far
    probed,         \* validatePDFResults: [link, outcome] of the probes sent
    vpc,            \* validatePDFResults: "idle", "loop" or "returned"
    retrieved,      \* the latest retrievePdfEmbeddings call made on its own
    frp,            \* a findRelevantPages call made on its own, step by step
    adds,           \* concurrent addToRecentSearches calls: caller -> [q, pos]
    gew,            \* getEmbeddingWithCache calls made on their own, and their cache
    rcache          \* a RedisEmbeddingCache used on its own, and its Redis keys

\* ----------------------------------------------------- groups of variables

recentVars == <<recent, history>>

storeVars == <<queryCache, googleCache, durable, memory, pendingWrites,
               pendingStores>>

callVars == <<nCalls, pc, query, calls, log, validPDFs, bst, bres, result,
              last>>

valVars == <<searchResults, idx, validResults, probed, vpc, retrieved,
             keyLog, frp, adds, gew, rcache>>

\* a step in which n collaborator calls fail
Faults(n) == faults + n <= MaxFaults /\ faults' = faults + n


vars == <<recentVars, storeVars, callVars, faults, valVars>>

NoEntry == [present |-> FALSE, text |-> <<>>]

PipelineInit ==
    /\ queryCache = [k \in {QueryCacheKey(q) : q \in Queries} |-> NoEntry]
    /\ googleCache = {}
    /\ durable = [u \in Urls |-> 0]
    /\ memory = [u \in Urls |-> [g \in 1..NumGroups(u) |-> 0]]
    /\ pendingWrites = {}
    /\ pendingStores = [u \in Urls |-> 0]
    /\ nCalls = 0
    /\ pc = "idle"
    /\ query = <<>>
    /\ calls = {}
    /\ log = {}
    /\ validPDFs = <<>>
    /\ bst = [u \in Urls |-> "none"]
    /\ bres = [u \in Urls |-> <<>>]
    /\ result = [status |-> "none", value |-> <<>>]
    /\ last = [query |-> <<>>, result |-> [status |-> "none", value |-> <<>>]]
    /\ faults = 0

\* no findRelevantPages call is being made on its own
FrpIdle ==
    [query |-> <<>>, frames |-> <<>>, store |-> {}, results |-> <<>>,
     returned |-> FALSE]

\* the callers of addToRecentSearches that run concurrently
Adders == 1..2

\* no addToRecentSearches call is running
AddsIdle == [a \in Adders |-> [q |-> 0, pos |-> "idle", n |-> 0]]

\* null, and the key of a call that has derived none
Null == <<>>

NoKey == [prefix |-> "none"]

NoEmbeddingResult ==
    [status |-> "none", source |-> "", embedding |-> Null, cacheKey |-> NoKey]

\* no getEmbeddingWithCache call was made, and the cache it is given is empty
GewIdle ==
    [pos |-> "idle", n |-> 0,
     query |-> [type |-> "string", text |-> <<>>], context |-> EmptyContext,
     cache |-> "cache", fn |-> "function",
     key |-> NoKey, embedding |-> Null, trace |-> <<>>,
     result |-> NoEmbeddingResult, store |-> {}]

\* a RedisEmbeddingCache that was not constructed
RcIdle ==
    [compress |-> FALSE, redis |-> {}, written |-> {},
     last |-> [op |-> "none", key |-> "", clientOk |-> TRUE,
               status |-> "none", value |-> Null]]

NotRetrieved ==
    [url |-> "u1", query |-> <<>>, tier |-> "none", passages |-> <<>>]

ValidateIdle ==
    /\ searchResults = <<>>
    /\ idx = 1
    /\ validResults = <<>>
    /\ probed = <<>>
    /\ vpc = "idle"
    /\ retrieved = NotRetrieved
    /\ keyLog = <<>>
    /\ frp = FrpIdle
    /\ adds = AddsIdle
    /\ gew = GewIdle
    /\ rcache = RcIdle

\* =============================================================== SpecRecent
\* Sequential calls of addToRecentSearches on the recent-queries list.
\* Queries are 1, 2, 3, ... in order of first submission.

Submitted == [i \in 1..Len(history) |-> history[i].q]

NumSubmittedDistinct == Cardinality(Range(Submitted))

NumIrregular ==
    LET resub == Len(history) - NumSubmittedDistinct
        failed == Cardinality({i \in 1..Len(history) : history[i].failAt # "none"})
    IN  resub + failed

RecentInit ==
    /\ recent = <<>>
    /\ history = <<>>
    /\ PipelineInit
    /\ ValidateIdle

RecentCall ==
    \E q \in 1..NumDistinct, f \in FailPoints :
        /\ q <= NumSubmittedDistinct + 1
        /\ Len(history) < NumDistinct + MaxIrregular
        /\ LET irregular == (IF q <= NumSubmittedDistinct THEN 1 ELSE 0)
                            + (IF f # "none" THEN 1 ELSE 0)
           IN  NumIrregular + irregular <= MaxIrregular
        /\ recent' = addToRecentSearches(recent, q, f)
        /\ history' = Append(history, [q |-> q, failAt |-> f])
        /\ UNCHANGED <<storeVars, callVars, faults, valVars>>

RecentNext == RecentCall

SpecRecent == RecentInit /\ [][RecentNext]_vars

\* ------------------------------------------------------------ C10 (recent)

\* index of the latest submission of q in the calls made so far
LastSubmission(q) ==
    CHOOSE i \in 1..Len(history) :
        /\ history[i].q = q
        /\ \A j \in 1..Len(history) : history[j].q = q => j <= i

AllListOpsSucceeded == \A i \in 1..Len(history) : history[i].failAt = "none"

\* recent holds the (at most 10) most recently submitted distinct queries,
\* most recent first.
HoldsMostRecent ==
    /\ Range(recent) \subseteq Range(Submitted)
    /\ Len(recent) = Min(RecentStop + 1, NumSubmittedDistinct)
    /\ \A i, j \in 1..Len(recent) :
           i < j => LastSubmission(recent[i]) > LastSubmission(recent[j])
    /\ \A q \in Range(Submitted) \ Range(recent) :
           \A i \in 1..Len(recent) : LastSubmission(q) < LastSubmission(recent[i])

\* the entries of recent are ordered by their latest submission, latest first
MostRecentFirst ==
    \A i, j \in 1..Len(recent) :
        i < j => LastSubmission(recent[i]) > LastSubmission(recent[j])

MemoryTopK == 5

\* similaritySearchWithScore(query, 10, filter) on Pinecone
DurableTopK == 10

\* similaritySearchWithScore("", 100, filter) on Pinecone
DurableAllK == 100

Rejected == [status |-> "rejected", value |-> <<>>]

Resolved(list) == [status |-> "resolved", value |-> list]

BranchRunning(u) == bst[u] = "todo"

\* processQuery(q) is called; the previous call has settled and its
\* processPdf branches have run to their end.
Call ==
    \E q \in Queries :
        /\ pc \in {"idle", "done"}
        /\ nCalls < MaxCalls
        /\ \A u \in Urls : ~BranchRunning(u)
        /\ nCalls' = nCalls + 1
        /\ query' = q
        /\ pc' = "recent"
        /\ calls' = {}
        /\ log' = {}
        /\ validPDFs' = <<>>
        /\ bst' = [u \in Urls |-> "none"]
        /\ bres' = [u \in Urls |-> <<>>]
        /\ result' = [status |-> "pending", value |-> <<>>]
        /\ last' = [query |-> query, result |-> result]
        /\ UNCHANGED <<recentVars, storeVars, faults, valVars>>

\* await addToRecentSearches(query)
AddToRecent ==
    \E f \in FailPoints :
        /\ pc = "recent"
        /\ Faults(IF f = "none" THEN 0 ELSE 1)
        /\ recent' = addToRecentSearches(recent, query, f)
        /\ calls' = calls \cup {"recentList"}
        /\ log' = IF f = "none" THEN log ELSE log \cup {"recentError"}
        /\ pc' = "search"
        /\ UNCHANGED <<history, storeVars, nCalls, query, validPDFs, bst,
                       bres, result, last, valVars>>

\* How GoogleSearchAPI.search ends: the cached answer, a fresh answer that
\* was cached, or a throw (redis.get, axios.get or redis.set rejected).
SearchOutcomes == {"cached", "fetched", "cacheGetFailed", "apiFailed", "cacheSetFailed"}

SearchThrows(o) == o \in {"cacheGetFailed", "apiFailed", "cacheSetFailed"}

\* a cached answer is returned exactly when redis.get finds one
SearchCanEnd(o) ==
    IF GoogleCacheKey(query) \in googleCache
    THEN o \in {"cached", "cacheGetFailed"}
    ELSE o # "cached"

\* the collaborators GoogleSearchAPI.search calls on the way to outcome o
SearchCalls(o) ==
    IF o \in {"cached", "cacheGetFailed"} THEN {"googleCache"}
    ELSE {"googleCache", "searchProvider"}

\* the probe outcomes explored in Spec: a PDF, a page that is not one, and a
\* probe that times out
PipelineProbes ==
    {o \in ProbeOutcomes :
        \/ o.kind = "timeout"
        \/ o.kind = "response" /\ o.status = 200
              /\ o.contentType \in {"application/pdf", "text/html"}}

\* searchAndValidatePDFs(query): searchPDFs, then validatePDFResults, inside
\* a try whose catch logs the error and returns undefined
searchAndValidatePDFs(q, o, outcomes) ==
    IF SearchThrows(o)
    THEN [defined |-> FALSE, value |-> <<>>]
    ELSE [defined |-> TRUE,
          value |-> validatePDFResults(SearchIndex(q), outcomes)]

\* a test that lets undefined through
Falsy_Never(v) == FALSE

\* !validPDFs: true of undefined, false of every array, the empty one included
Falsy(v) == ~v.defined

\* await searchAndValidatePDFs(query) and `if (!validPDFs) return []`: the
\* lines of processQuery between addToRecentSearches and the cache lookup.
SearchAndValidate ==
    \E o \in SearchOutcomes,
       outcomes \in [1..Len(SearchIndex(query)) -> PipelineProbes] :
        /\ pc = "search"
        /\ SearchCanEnd(o)
        /\ SearchThrows(o) => \A i \in DOMAIN outcomes : ProbeAccepts(outcomes[i])
        /\ Faults(IF SearchThrows(o) THEN 1 ELSE 0)
        /\ googleCache' = IF o = "fetched"
                          THEN googleCache \cup {GoogleCacheKey(query)}
                          ELSE googleCache
        /\ calls' = calls \cup SearchCalls(o)
                      \cup (IF SearchThrows(o) \/ SearchIndex(query) = <<>>
                            THEN {} ELSE {"probe"})
        /\ LET v == searchAndValidatePDFs(query, o, outcomes)
           IN  /\ validPDFs' = v.value
               /\ log' = log \cup (IF v.defined THEN {"found"} ELSE {"searchError"})
                             \cup (IF Falsy(v) THEN {"noValidPdfs"} ELSE {})
               /\ IF Falsy(v)
                  THEN /\ result' = Resolved(<<>>)
                       /\ pc' = "done"
                  ELSE /\ result' = result
                       /\ pc' = "cache"
        /\ UNCHANGED <<recentVars, queryCache, durable, memory, pendingWrites,
                       pendingStores, nCalls, query, bst, bres, last, valVars>>

\* an aggregation that awaits the cache write before it returns
Aggregate_AwaitsWrite(lists, newCalls) ==
    IF \E i \in 1..Len(lists) : lists[i] = <<>>
    THEN /\ result' = Rejected
         /\ pc' = "done"
         /\ calls' = newCalls
         /\ UNCHANGED pendingWrites
    ELSE LET serializedResults ==
                 [i \in 1..Len(lists) |-> serializeResults(lists[i])]
         IN  /\ pendingWrites' = pendingWrites \cup
                     {[key |-> QueryCacheKey(query),
                       text |-> JSONstringify(serializedResults)]}
             /\ calls' = newCalls \cup {"cacheSet"}
             /\ result' = result
             /\ pc' = "write"

\* an aggregation that caches the list without its last document
Aggregate_Partial(lists, newCalls) ==
    IF \E i \in 1..Len(lists) : lists[i] = <<>>
    THEN /\ result' = Rejected
         /\ pc' = "done"
         /\ calls' = newCalls
         /\ UNCHANGED pendingWrites
    ELSE LET serializedResults ==
                 [i \in 1..Len(lists) |-> serializeResults(lists[i])]
         IN  /\ pendingWrites' = pendingWrites \cup
                     {[key |-> QueryCacheKey(query),
                       text |-> JSONstringify(
                                    SubSeq(serializedResults, 1,
                                           Len(serializedResults) - 1))]}
             /\ calls' = newCalls \cup {"cacheSet"}
             /\ result' = Resolved(serializedResults)
             /\ pc' = "done"

\* results.map(serializeResults), the fire-and-forget Promise.all with
\* redis.set and cleanupMemory, and the return: what processQuery does once
\* the Promise.all over the processPdf branches has resolved with `lists`.
Aggregate(lists, newCalls) ==
    IF \E i \in 1..Len(lists) : lists[i] = <<>>
    THEN /\ result' = Rejected
         /\ pc' = "done"
         /\ calls' = newCalls
         /\ UNCHANGED pendingWrites
    ELSE LET serializedResults ==
                 [i \in 1..Len(lists) |-> serializeResults(lists[i])]
         IN  /\ pendingWrites' = pendingWrites \cup
                     {[key |-> QueryCacheKey(query),
                       text |-> JSONstringify(serializedResults)]}
             /\ calls' = newCalls \cup {"cacheSet"}
             /\ result' = Resolved(serializedResults)
             /\ pc' = "done"

\* The await of Promise.all(pdfs.map(processPdf)) after a branch changed:
\* it rejects with the first rejected branch, resolves once every branch has
\* resolved, and otherwise keeps processQuery waiting.
Join(newBst, newBres, newCalls) ==
    IF result.status # "pending"
    THEN /\ calls' = newCalls
         /\ UNCHANGED <<result, pc, pendingWrites>>
    ELSE IF \E u \in Urls : newBst[u] = "rejected"
    THEN /\ result' = Rejected
         /\ pc' = "done"
         /\ calls' = newCalls
         /\ UNCHANGED pendingWrites
    ELSE IF \A i \in 1..Len(validPDFs) : newBst[validPDFs[i]] = "ok"
    THEN Aggregate([i \in 1..Len(validPDFs) |-> newBres[validPDFs[i]]], newCalls)
    ELSE /\ calls' = newCalls
         /\ pc' = "await"
         /\ UNCHANGED <<result, pendingWrites>>

\* createSemanticCacheKey, redis.get(`query:${key}`), and on a hit the
\* return of JSON.parse(queryCache); on a miss the processPdf branches start.
CacheLookup ==
    \E ok \in BOOLEAN :
        /\ pc = "cache"
        /\ Faults(IF ok THEN 0 ELSE 1)
        /\ IF ~ok
           THEN /\ calls' = calls \cup {"cacheGet"}
                /\ result' = Rejected
                /\ pc' = "done"
                /\ UNCHANGED <<log, bst, pendingWrites>>
           ELSE IF /\ queryCache[QueryCacheKey(query)].present
                   /\ ~Deserializable(queryCache[QueryCacheKey(query)].text)
           THEN /\ calls' = calls \cup {"cacheGet"}
                /\ log' = log \cup {"cacheHit"}
                /\ result' = Rejected
                /\ pc' = "done"
                /\ UNCHANGED <<bst, pendingWrites>>
           ELSE IF queryCache[QueryCacheKey(query)].present
           THEN /\ calls' = calls \cup {"cacheGet"}
                /\ log' = log \cup {"cacheHit"}
                /\ result' = Resolved(JSONparse(queryCache[QueryCacheKey(query)].text))
                /\ pc' = "done"
                /\ UNCHANGED <<bst, pendingWrites>>
           ELSE /\ log' = log \cup {"processing"}
                /\ bst' = [u \in Urls |->
                              IF u \in Range(validPDFs) THEN "todo" ELSE "none"]
                /\ Join(bst', bres, calls \cup {"cacheGet"})
        /\ UNCHANGED <<recentVars, queryCache, googleCache, durable, memory,
                       pendingStores, nCalls, query, validPDFs, bres, last,
                       valVars>>

\* the chunks a store holds for u, as copies per page
DurableCopies(u) == [p \in 1..NumPages(u) |-> durable[u]]

MemoryCopies(u, mem) == [p \in 1..NumPages(u) |-> mem[u][GroupOf(u, p)]]

\* a retrieve that answers from the store whether or not the call failed
retrieveDurable_IgnoresFailure(u, q, ok) ==
    TopK(q, u, DurableCopies(u), IF q = <<>> THEN DurableAllK ELSE DurableTopK)

\* retrievePdfEmbeddings(pdfUrl, query) on Pinecone: the 10 best for a
\* non-empty query, up to 100 for the empty string, [] when the call fails
retrieveDurable(u, q, ok) ==
    IF ~ok THEN <<>>
    ELSE TopK(q, u, DurableCopies(u), IF q = <<>> THEN DurableAllK ELSE DurableTopK)

\* a memory retrieve without the pdfUrl filter: the best of every document
retrieveMemory_Unfiltered(u, q, mem, ok) ==
    IF ~ok THEN <<>>
    ELSE TopK(q, "u1", MemoryCopies("u1", mem), MemoryTopK)
         \o TopK(q, "u2", MemoryCopies("u2", mem), MemoryTopK)

\* retrievePdfEmbeddings(pdfUrl, query, true) on the memory store
retrieveMemory(u, q, mem, ok) ==
    IF ~ok THEN <<>> ELSE TopK(q, u, MemoryCopies(u, mem), MemoryTopK)

\* how loadPdfFromUrl ends: the pages, or a rethrown failure of redis.get,
\* of the fetch, or of the parse (an empty document included)
LoadOutcomes == {"loaded", "cacheGetFailed", "fetchFailed"}

\* The orders in which the awaited calls of the n concurrent group runs of
\* findRelevantPages can complete: entry i names the group whose call
\* completes i-th; the first entry of a group is its store, the second its
\* retrieve.
Schedules(n) ==
    {s \in [1..2 * n -> 1..n] :
        \A g \in 1..n : Cardinality({i \in 1..2 * n : s[i] = g}) = 2}

\* the schedule s run from its i-th completion on: a store that succeeds adds
\* the chunks of its group to the memory store, a retrieve appends what it
\* finds in the memory store at that moment (results.push(...result))
RECURSIVE RunGroups(_, _, _, _, _, _, _)
RunGroups(u, q, s, okAt, i, mem, collected) ==
    IF i > Len(s) THEN [memory |-> mem, relevantPages |-> collected]
    ELSE LET g == s[i]
             isStore == \A j \in 1..(i - 1) : s[j] # g
         IN  IF isStore
             THEN RunGroups(u, q, s, okAt, i + 1,
                            IF okAt[i] THEN [mem EXCEPT ![u][g] = @ + 1] ELSE mem,
                            collected)
             ELSE RunGroups(u, q, s, okAt, i + 1, mem,
                            collected \o retrieveMemory(u, q, mem, okAt[i]))

\* findRelevantPages(docs, query, pdfUrl): one store and one retrieve for a
\* document of at most 50 pages, one concurrent run per group of 50 pages
\* for a larger one
findRelevantPages(u, q, s, okAt, mem) == RunGroups(u, q, s, okAt, 1, mem, <<>>)

NumFailed(okAt) == Cardinality({i \in DOMAIN okAt : ~okAt[i]})

\* a processPdf that stores the document again although Pinecone had it
ProcessPdfReuse_StoresAgain(u) ==
    LET pdfEmbedding == retrieveDurable(u, query, TRUE)
    IN  /\ pdfEmbedding # <<>>
        /\ Faults(0)
        /\ bst' = [bst EXCEPT ![u] = "ok"]
        /\ bres' = [bres EXCEPT ![u] =
                       serializeDocuments(pdfEmbedding, Candidate(u))]
        /\ log' = log \cup {"foundInPinecone"}
        /\ pendingStores' = [pendingStores EXCEPT ![u] = @ + 1]
        /\ UNCHANGED memory
        /\ Join(bst', bres', calls \cup {"durableQuery", "durableStore"})

\* processPdf finds the document in Pinecone and returns what it found
ProcessPdfReuse(u) ==
    LET pdfEmbedding == retrieveDurable(u, query, TRUE)
    IN  /\ pdfEmbedding # <<>>
        /\ Faults(0)
        /\ bst' = [bst EXCEPT ![u] = "ok"]
        /\ bres' = [bres EXCEPT ![u] =
                       serializeDocuments(pdfEmbedding, Candidate(u))]
        /\ log' = log \cup {"foundInPinecone"}
        /\ UNCHANGED <<memory, pendingStores>>
        /\ Join(bst', bres', calls \cup {"durableQuery"})

\* a processPdf that starts the durable store before it loads the document
ProcessPdfLoadFails_StoresFirst(u) ==
    \E found \in BOOLEAN, l \in LoadOutcomes \ {"loaded"} :
        /\ Faults((IF found THEN 0 ELSE 1) + 1)
        /\ retrieveDurable(u, query, found) = <<>>
        /\ bst' = [bst EXCEPT ![u] = "rejected"]
        /\ log' = log \cup {"loadError"}
                      \cup (IF found THEN {} ELSE {"retrieveError"})
        /\ pendingStores' = [pendingStores EXCEPT ![u] = @ + 1]
        /\ UNCHANGED <<bres, memory>>
        /\ Join(bst', bres,
                calls \cup {"durableQuery", "durableStore", "pdfCacheGet"}
                      \cup (IF l = "fetchFailed" THEN {"fetch"} ELSE {}))

\* processPdf finds nothing in Pinecone (nothing stored, or the lookup failed
\* and returned []) and loadPdfFromUrl throws
ProcessPdfLoadFails(u) ==
    \E found \in BOOLEAN, l \in LoadOutcomes \ {"loaded"} :
        /\ Faults((IF found THEN 0 ELSE 1) + 1)
        /\ retrieveDurable(u, query, found) = <<>>
        /\ bst' = [bst EXCEPT ![u] = "rejected"]
        /\ log' = log \cup {"loadError"}
                      \cup (IF found THEN {} ELSE {"retrieveError"})
        /\ UNCHANGED <<bres, memory, pendingStores>>
        /\ Join(bst', bres,
                calls \cup {"durableQuery", "pdfCacheGet"}
                      \cup (IF l = "fetchFailed" THEN {"fetch"} ELSE {}))

\* a fresh processPdf that leaves the durable store out
ProcessPdfFresh_MemoryOnly(u) ==
    \E found \in BOOLEAN, s \in Schedules(NumGroups(u)),
       okAt \in [1..2 * NumGroups(u) -> BOOLEAN] :
        /\ Faults((IF found THEN 0 ELSE 1) + NumFailed(okAt))
        /\ retrieveDurable(u, query, found) = <<>>
        /\ LET run == findRelevantPages(u, query, s, okAt, memory)
           IN  /\ memory' = run.memory
               /\ UNCHANGED pendingStores
               /\ bst' = [bst EXCEPT ![u] = "ok"]
               /\ bres' = [bres EXCEPT ![u] =
                              serializeDocuments(run.relevantPages, Candidate(u))]
               /\ log' = log \cup (IF found THEN {} ELSE {"retrieveError"})
                             \cup (IF NumFailed(okAt) = 0 THEN {}
                                   ELSE {"embeddingError"})
               /\ Join(bst', bres',
                       calls \cup {"durableQuery", "pdfCacheGet", "fetch",
                                   "memoryStore", "memoryQuery"})

\* processPdf finds nothing in Pinecone, loads the document, runs
\* findRelevantPages, starts the durable store and returns
ProcessPdfFresh(u) ==
    \E found \in BOOLEAN, s \in Schedules(NumGroups(u)),
       okAt \in [1..2 * NumGroups(u) -> BOOLEAN] :
        /\ Faults((IF found THEN 0 ELSE 1) + NumFailed(okAt))
        /\ retrieveDurable(u, query, found) = <<>>
        /\ LET run == findRelevantPages(u, query, s, okAt, memory)
           IN  /\ memory' = run.memory
               /\ pendingStores' = [pendingStores EXCEPT ![u] = @ + 1]
               /\ bst' = [bst EXCEPT ![u] = "ok"]
               /\ bres' = [bres EXCEPT ![u] =
                              serializeDocuments(run.relevantPages, Candidate(u))]
               /\ log' = log \cup (IF found THEN {} ELSE {"retrieveError"})
                             \cup (IF NumFailed(okAt) = 0 THEN {}
                                   ELSE {"embeddingError"})
               /\ Join(bst', bres',
                       calls \cup {"durableQuery", "pdfCacheGet", "fetch",
                                   "memoryStore", "memoryQuery", "durableStore"})

\* processPdf(pdf, query) with pdf.url = u: the Pinecone lookup and the
\* return of what it found, or else loadPdfFromUrl, findRelevantPages, the
\* durable store started without awaiting it, and the return of
\* serializeDocuments(relevantPages, pdf).  A rejected loadPdfFromUrl rejects
\* processPdf.  Branches of different URLs read and write disjoint entries of
\* the two stores, so a branch runs here in one step; the completions of the
\* group runs of one document interleave as a schedule says.
ProcessPdf(u) ==
    /\ bst[u] = "todo"
    /\ \/ ProcessPdfReuse(u)
       \/ ProcessPdfLoadFails(u)
       \/ ProcessPdfFresh(u)
    /\ UNCHANGED <<recentVars, queryCache, googleCache, durable, nCalls,
                   query, validPDFs, last, valVars>>

\* a durable store whose failure is thrown into the processPdf call that
\* started it
DurableStoreSettles_Throws(u) ==
    \E ok \in BOOLEAN :
        /\ pendingStores[u] > 0
        /\ Faults(IF ok THEN 0 ELSE 1)
        /\ pendingStores' = [pendingStores EXCEPT ![u] = @ - 1]
        /\ durable' = IF ok THEN [durable EXCEPT ![u] = @ + 1] ELSE durable
        /\ log' = IF ok THEN log ELSE log \cup {"storeRejected"}
        /\ bst' = IF ok THEN bst ELSE [bst EXCEPT ![u] = "rejected"]
        /\ bres' = IF ok THEN bres ELSE [bres EXCEPT ![u] = <<>>]
        /\ UNCHANGED <<recentVars, queryCache, googleCache, memory,
                       pendingWrites, nCalls, pc, query, calls, validPDFs,
                       result, last, valVars>>

\* a durable store that replaces the chunks Pinecone held for the url
DurableStoreSettles_Overwrites(u) ==
    \E ok \in BOOLEAN :
        /\ pendingStores[u] > 0
        /\ Faults(IF ok THEN 0 ELSE 1)
        /\ pendingStores' = [pendingStores EXCEPT ![u] = @ - 1]
        /\ durable' = IF ok THEN [durable EXCEPT ![u] = 1] ELSE durable
        /\ log' = IF ok THEN log ELSE log \cup {"storeError"}
        /\ UNCHANGED <<recentVars, queryCache, googleCache, memory,
                       pendingWrites, nCalls, pc, query, calls, validPDFs,
                       bst, bres, result, last, valVars>>

\* a storePdfEmbeddings(pdf.url, docs) on Pinecone settles: true with the
\* chunks upserted, or false with the failure logged by its catch block
DurableStoreSettles(u) ==
    \E ok \in BOOLEAN :
        /\ pendingStores[u] > 0
        /\ Faults(IF ok THEN 0 ELSE 1)
        /\ pendingStores' = [pendingStores EXCEPT ![u] = @ - 1]
        /\ durable' = IF ok THEN [durable EXCEPT ![u] = @ + 1] ELSE durable
        /\ log' = IF ok THEN log ELSE log \cup {"storeError"}
        /\ UNCHANGED <<recentVars, queryCache, googleCache, memory,
                       pendingWrites, nCalls, pc, query, calls, validPDFs,
                       bst, bres, result, last, valVars>>

\* a redis.set whose rejection reaches the call that started it
CacheWriteSettles_Rejects ==
    \E w \in pendingWrites, ok \in BOOLEAN :
        /\ Faults(IF ok THEN 0 ELSE 1)
        /\ pendingWrites' = pendingWrites \ {w}
        /\ queryCache' = IF ok
                         THEN [queryCache EXCEPT ![w.key] =
                                  [present |-> TRUE, text |-> w.text]]
                         ELSE queryCache
        /\ result' = IF ok THEN result ELSE Rejected
        /\ UNCHANGED <<recentVars, googleCache, durable, memory, pendingStores,
                       nCalls, pc, query, calls, log, validPDFs, bst, bres,
                       last, valVars>>

\* a redis.set of processQuery settles: the entry written, or a rejection
\* nobody handles
CacheWriteSettles ==
    \E w \in pendingWrites, ok \in BOOLEAN :
        /\ Faults(IF ok THEN 0 ELSE 1)
        /\ pendingWrites' = pendingWrites \ {w}
        /\ queryCache' = IF ok
                         THEN [queryCache EXCEPT ![w.key] =
                                  [present |-> TRUE, text |-> w.text]]
                         ELSE queryCache
        /\ UNCHANGED <<recentVars, googleCache, durable, memory, pendingStores,
                       callVars, valVars>>

Init ==
    /\ recent = <<>>
    /\ history = <<>>
    /\ PipelineInit
    /\ ValidateIdle

Next ==
    \/ Call
    \/ AddToRecent
    \/ SearchAndValidate
    \/ CacheLookup
    \/ \E u \in Urls : ProcessPdf(u)
    \/ \E u \in Urls : DurableStoreSettles(u)
    \/ CacheWriteSettles

Spec == Init /\ [][Next]_vars

\* ================================================================= SpecLive
\* One processQuery call, made when Pinecone holds any of the documents and
\* the Query Cache holds or lacks the entry "[]" for the query "a", with
\* every awaited collaborator call returning or failing in the end:
\* addToRecentSearches, searchAndValidatePDFs, the redis.get of the Query
\* Cache and every processPdf branch take their step.  Nothing is assumed of
\* the cache write and of the durable stores, which no call awaits.

LiveInit ==
    /\ ValidateIdle
    /\ recent = <<>>
    /\ history = <<>>
    /\ \E cached \in BOOLEAN :
           queryCache = [k \in {QueryCacheKey(q) : q \in Queries} |->
                            IF cached /\ k = QueryCacheKey(<<"a">>)
                            THEN [present |-> TRUE, text |-> JSONstringify(<<>>)]
                            ELSE NoEntry]
    /\ googleCache = {}
    /\ durable \in [Urls -> 0..1]
    /\ memory = [u \in Urls |-> [g \in 1..NumGroups(u) |-> 0]]
    /\ pendingWrites = {}
    /\ pendingStores = [u \in Urls |-> 0]
    /\ nCalls = 0
    /\ pc = "idle"
    /\ query = <<>>
    /\ calls = {}
    /\ log = {}
    /\ validPDFs = <<>>
    /\ bst = [u \in Urls |-> "none"]
    /\ bres = [u \in Urls |-> <<>>]
    /\ result = [status |-> "none", value |-> <<>>]
    /\ last = [query |-> <<>>, result |-> [status |-> "none", value |-> <<>>]]
    /\ faults = 0

\* the one call
LiveCall == nCalls = 0 /\ Call

LiveNext ==
    \/ LiveCall
    \/ AddToRecent
    \/ SearchAndValidate
    \/ CacheLookup
    \/ \E u \in Urls : ProcessPdf(u)
    \/ \E u \in Urls : DurableStoreSettles(u)
    \/ CacheWriteSettles

Fairness ==
    /\ WF_vars(AddToRecent)
    /\ WF_vars(SearchAndValidate)
    /\ WF_vars(CacheLookup)
    /\ \A u \in Urls : WF_vars(ProcessPdf(u))

SpecLive == LiveInit /\ [][LiveNext]_vars /\ Fairness

\* ============================================================== SpecCorrupt
\* processQuery calls against a Redis whose "query:" entry for the query "a"
\* holds a text that is not JSON.

CorruptInit ==
    /\ ValidateIdle
    /\ recent = <<>>
    /\ history = <<>>
    /\ queryCache = [k \in {QueryCacheKey(q) : q \in Queries} |->
                        IF k = QueryCacheKey(<<"a">>)
                        THEN [present |-> TRUE, text |-> Truncated]
                        ELSE NoEntry]
    /\ googleCache = {}
    /\ durable = [u \in Urls |-> 0]
    /\ memory = [u \in Urls |-> [g \in 1..NumGroups(u) |-> 0]]
    /\ pendingWrites = {}
    /\ pendingStores = [u \in Urls |-> 0]
    /\ nCalls = 0
    /\ pc = "idle"
    /\ query = <<>>
    /\ calls = {}
    /\ log = {}
    /\ validPDFs = <<>>
    /\ bst = [u \in Urls |-> "none"]
    /\ bres = [u \in Urls |-> <<>>]
    /\ result = [status |-> "none", value |-> <<>>]
    /\ last = [query |-> <<>>, result |-> [status |-> "none", value |-> <<>>]]
    /\ faults = 0

SpecCorrupt == CorruptInit /\ [][Next]_vars

\* ============================================================= SpecValidate
\* GoogleSearchAPI.validatePDFResults(results), one iteration of its for loop
\* per step, on every list of at most MaxCandidates candidates.

CandidateLists == UNION {[1..n -> Urls] : n \in 0..MaxCandidates}

ValidateInit ==
    /\ recent = <<>>
    /\ history = <<>>
    /\ PipelineInit
    /\ searchResults \in CandidateLists
    /\ idx = 1
    /\ validResults = <<>>
    /\ probed = <<>>
    /\ vpc = "loop"
    /\ retrieved = NotRetrieved
    /\ keyLog = <<>>
    /\ frp = FrpIdle
    /\ adds = AddsIdle
    /\ gew = GewIdle
    /\ rcache = RcIdle

\* one iteration: await axios.head(result.link, ...) inside try/catch, and
\* validResults.push(result) when the answer names a PDF
ValidateStep ==
    \E o \in ProbeOutcomes :
        /\ vpc = "loop"
        /\ idx <= Len(searchResults)
        /\ probed' = Append(probed, [link |-> searchResults[idx], outcome |-> o])
        /\ validResults' = ValidateOne(validResults, searchResults[idx], o)
        /\ idx' = idx + 1
        /\ UNCHANGED <<searchResults, vpc, retrieved, keyLog, frp, adds, gew, rcache, recentVars, storeVars,
                       callVars, faults>>

\* return validResults
ValidateReturn ==
    /\ vpc = "loop"
    /\ idx > Len(searchResults)
    /\ vpc' = "returned"
    /\ UNCHANGED <<searchResults, idx, validResults, probed, retrieved, keyLog,
                 frp, adds, gew, rcache,
                   recentVars, storeVars, callVars, faults>>

ValidateNext == ValidateStep \/ ValidateReturn

SpecValidate == ValidateInit /\ [][ValidateNext]_vars

\* ============================================================= SpecRetrieve
\* storePdfEmbeddings and retrievePdfEmbeddings of PDFProcessor called on
\* their own, in any order, on the two tiers.

RetrieveInit ==
    /\ recent = <<>>
    /\ history = <<>>
    /\ PipelineInit
    /\ ValidateIdle

\* storePdfEmbeddings(pdfUrl, documents, true) with the pages of group g of
\* u: the chunks are added to the memory store, or the call fails, which is
\* logged and answered with false
StoreInMemory ==
    \E u \in Urls, ok \in BOOLEAN :
        \E g \in 1..NumGroups(u) :
            /\ memory[u][g] < MaxCopies
            /\ memory' = IF ok THEN [memory EXCEPT ![u][g] = @ + 1] ELSE memory
            /\ retrieved' = NotRetrieved
            /\ UNCHANGED <<recentVars, queryCache, googleCache, durable,
                           pendingWrites, pendingStores, callVars, faults,
                           searchResults, idx, validResults, probed, vpc,
                           keyLog, frp, adds, gew, rcache>>

\* storePdfEmbeddings(pdfUrl, documents) with all pages of u on Pinecone
StoreInPinecone ==
    \E u \in Urls, ok \in BOOLEAN :
        /\ durable[u] < MaxCopies
        /\ durable' = IF ok THEN [durable EXCEPT ![u] = @ + 1] ELSE durable
        /\ retrieved' = NotRetrieved
        /\ UNCHANGED <<recentVars, queryCache, googleCache, memory,
                       pendingWrites, pendingStores, callVars, faults,
                       searchResults, idx, validResults, probed, vpc,
                           keyLog, frp, adds, gew, rcache>>

\* retrievePdfEmbeddings(pdfUrl, query, storeInMemory)
Retrieve ==
    \E u \in Urls, q \in Queries, storeInMemory \in BOOLEAN, ok \in BOOLEAN :
        /\ retrieved' =
              [url |-> u, query |-> q,
               tier |-> IF storeInMemory THEN "memory" ELSE "durable",
               passages |-> IF storeInMemory
                            THEN retrieveMemory(u, q, memory, ok)
                            ELSE retrieveDurable(u, q, ok)]
        /\ UNCHANGED <<recentVars, storeVars, callVars, faults,
                       searchResults, idx, validResults, probed, vpc,
                           keyLog, frp, adds, gew, rcache>>

RetrieveNext == StoreInMemory \/ StoreInPinecone \/ Retrieve

SpecRetrieve == RetrieveInit /\ [][RetrieveNext]_vars

\* ================================================================ SpecFanOut
\* findRelevantPages(documents, query, pdfUrl) called on its own with the
\* pages 1..n of a document, the memory store empty: every call of the
\* recursion is a frame, and the awaited steps of the frames interleave.

FanQueries == {<<>>, <<"a">>}

FanUrl == "u2"

\* documents.slice(start, end)
SliceDocs(documents, start, end) ==
    SubSeq(documents, start + 1, Min(end, Len(documents)))

\* slices that take one page more than the step of the loop
RECURSIVE ChunksFrom_Overlapping(_, _)
ChunksFrom_Overlapping(documents, i) ==
    IF i < Len(documents)
    THEN <<SliceDocs(documents, i, i + GroupSize + 1)>>
         \o ChunksFrom_Overlapping(documents, i + GroupSize)
    ELSE <<>>

\* for (let i = 0; i < documents.length; i += 50)
\*     chunks.push(documents.slice(i, i + 50))
RECURSIVE ChunksFrom(_, _)
ChunksFrom(documents, i) ==
    IF i < Len(documents)
    THEN <<SliceDocs(documents, i, i + GroupSize)>>
         \o ChunksFrom(documents, i + GroupSize)
    ELSE <<>>

Chunks(documents) == ChunksFrom(documents, 0)

\* a call findRelevantPages(documents, ...) that has just been made
Frame(documents, depth) ==
    [docs |-> documents, depth |-> depth, pos |-> "enter",
     stored |-> "pending", retrieve |-> "pending", seen |-> {},
     passages |-> <<>>]

\* page p ranks before page r for the query: the higher score, and the
\* lower page number among equal scores
RanksBefore(q, p, r) ==
    \/ Score(q, FanUrl, p) > Score(q, FanUrl, r)
    \/ Score(q, FanUrl, p) = Score(q, FanUrl, r) /\ p <= r

\* similaritySearchWithScore(query, k, filter) over the chunks of the pages S
RECURSIVE TopPages(_, _, _)
TopPages(q, S, k) ==
    IF k = 0 \/ S = {} THEN <<>>
    ELSE LET best == CHOOSE p \in S : \A r \in S : RanksBefore(q, p, r)
         IN  <<Passage(q, FanUrl, best)>> \o TopPages(q, S \ {best}, k - 1)

FanInit ==
    /\ recent = <<>>
    /\ history = <<>>
    /\ PipelineInit
    /\ searchResults = <<>>
    /\ idx = 1
    /\ validResults = <<>>
    /\ probed = <<>>
    /\ vpc = "idle"
    /\ retrieved = NotRetrieved
    /\ keyLog = <<>>
    /\ adds = AddsIdle
    /\ gew = GewIdle
    /\ rcache = RcIdle
    /\ frp \in {[query |-> q, frames |-> <<Frame([p \in 1..n |-> p], 0)>>,
                  store |-> {}, results |-> <<>>, returned |-> FALSE] :
                     q \in FanQueries, n \in 1..MaxPages}

FanUnchanged ==
    UNCHANGED <<recentVars, storeVars, callVars, faults, searchResults, idx,
                validResults, probed, vpc, retrieved, keyLog, adds, gew, rcache>>

\* the call enters: more than 50 pages are cut into chunks and one call is
\* made per chunk, otherwise the call goes on to its store
FrpEnter(i) ==
    /\ frp.frames[i].pos = "enter"
    /\ LET f == frp.frames[i]
           chunks == Chunks(f.docs)
       IN  frp' = IF Len(f.docs) > GroupSize
                  THEN [frp EXCEPT !.frames =
                           [@ EXCEPT ![i].pos = "split"]
                           \o [j \in 1..Len(chunks) |->
                                  Frame(chunks[j], f.depth + 1)]]
                  ELSE [frp EXCEPT !.frames[i].pos = "store"]
    /\ FanUnchanged

\* a retrieve that does not wait for the store of its call
FrpRetrieve_Early(i) ==
    \E ok \in BOOLEAN :
        /\ frp.frames[i].pos \in {"store", "retrieve"}
        /\ LET f == frp.frames[i]
               found == IF ok THEN TopPages(frp.query, frp.store, MemoryTopK)
                        ELSE <<>>
           IN  frp' = [frp EXCEPT
                          !.frames[i].pos = "done",
                          !.frames[i].retrieve = IF ok THEN "ok" ELSE "failed",
                          !.frames[i].seen = IF ok THEN frp.store ELSE {},
                          !.frames[i].passages = found,
                          !.results = @ \o found,
                          !.returned = (f.depth = 0)]
        /\ FanUnchanged

\* await this.storePdfEmbeddings(pdfUrl, documents, true) completes: the
\* chunks are in the memory store, or the failure is caught and answered false
FrpStore(i) ==
    \E ok \in BOOLEAN :
        /\ frp.frames[i].pos = "store"
        /\ frp' = [frp EXCEPT
                      !.frames[i].pos = "retrieve",
                      !.frames[i].stored = IF ok THEN "true" ELSE "false",
                      !.store = IF ok THEN @ \cup Range(frp.frames[i].docs)
                                ELSE @]
        /\ FanUnchanged

\* await this.retrievePdfEmbeddings(pdfUrl, query, true) completes and the
\* call returns what it found ([] when the retrieve failed); the caller of a
\* chunk pushes it onto its results
FrpRetrieve(i) ==
    \E ok \in BOOLEAN :
        /\ frp.frames[i].pos = "retrieve"
        /\ LET f == frp.frames[i]
               found == IF ok THEN TopPages(frp.query, frp.store, MemoryTopK)
                        ELSE <<>>
           IN  frp' = [frp EXCEPT
                          !.frames[i].pos = "done",
                          !.frames[i].retrieve = IF ok THEN "ok" ELSE "failed",
                          !.frames[i].seen = IF ok THEN frp.store ELSE {},
                          !.frames[i].passages = found,
                          !.results = @ \o found,
                          !.returned = (f.depth = 0)]
        /\ FanUnchanged

\* the Promise.all over the chunks resolves and the call returns results
FrpReturn ==
    /\ ~frp.returned
    /\ frp.frames[1].pos = "split"
    /\ \A i \in 2..Len(frp.frames) : frp.frames[i].pos \in {"split", "done"}
    /\ frp' = [frp EXCEPT !.returned = TRUE]
    /\ FanUnchanged

FanNext ==
    \/ \E i \in 1..Len(frp.frames) : FrpEnter(i)
    \/ \E i \in 1..Len(frp.frames) : FrpStore(i)
    \/ \E i \in 1..Len(frp.frames) : FrpRetrieve(i)
    \/ FrpReturn

SpecFanOut == FanInit /\ [][FanNext]_vars

\* ============================================================ SpecConcurrent
\* addToRecentSearches called by concurrent processQuery calls: each of its
\* three awaited list commands is one step on the Redis list, and the steps
\* of the callers interleave.

\* the query texts submitted
AddQueries == 1..2

ConcInit ==
    /\ recent = <<>>
    /\ history = <<>>
    /\ PipelineInit
    /\ ValidateIdle

ConcUnchanged ==
    UNCHANGED <<history, storeVars, callVars, faults, searchResults, idx,
                validResults, probed, vpc, retrieved, keyLog, frp, gew,
                rcache>>

\* processQuery(q) is called and calls addToRecentSearches(q)
AddStart(a) ==
    \E q \in AddQueries :
        /\ adds[a].pos = "idle"
        /\ adds[a].n < MaxAdds
        /\ adds' = [adds EXCEPT ![a] = [q |-> q, pos |-> "lrem", n |-> @.n + 1]]
        /\ UNCHANGED recent
        /\ ConcUnchanged

\* await redis.lrem(recentSearchesKey, 0, query); a rejection ends the call
\* in its catch block
AddLrem(a) ==
    \E ok \in BOOLEAN :
        /\ adds[a].pos = "lrem"
        /\ recent' = IF ok THEN Lrem(recent, adds[a].q) ELSE recent
        /\ adds' = [adds EXCEPT ![a].pos = IF ok THEN "lpush" ELSE "idle"]
        /\ ConcUnchanged

\* await redis.lpush(recentSearchesKey, query)
AddLpush(a) ==
    \E ok \in BOOLEAN :
        /\ adds[a].pos = "lpush"
        /\ recent' = IF ok THEN Lpush(recent, adds[a].q) ELSE recent
        /\ adds' = [adds EXCEPT ![a].pos = IF ok THEN "ltrim" ELSE "idle"]
        /\ ConcUnchanged

\* await redis.ltrim(recentSearchesKey, 0, 9)
AddLtrim(a) ==
    \E ok \in BOOLEAN :
        /\ adds[a].pos = "ltrim"
        /\ recent' = IF ok THEN Ltrim(recent, RecentStart, RecentStop) ELSE recent
        /\ adds' = [adds EXCEPT ![a].pos = "idle"]
        /\ ConcUnchanged

ConcNext ==
    \E a \in Adders :
        \/ AddStart(a)
        \/ AddLrem(a)
        \/ AddLpush(a)
        \/ AddLtrim(a)

SpecConcurrent == ConcInit /\ [][ConcNext]_vars

\* ================================================================== SpecKey
\* createSemanticCacheKey(query, options) called on its own, MaxKeyCalls times.

\* the queries: two entities in both orders, four entities in both orders,
\* three spellings of "p q", a noun in two spellings, the empty string, a
\* who-question, a negated sentence and a word without a tag
KeyQueries ==
    { <<"p", " ", "q">>, <<"q", " ", "p">>,
      <<"p", " ", "q", " ", "r", " ", "s">>,
      <<"s", " ", "r", " ", "q", " ", "p">>,
      <<"P", " ", " ", "q">>, <<"\t", "p", "\t", "Q", " ">>,
      <<"a">>, <<" ", "A">>, <<>>,
      <<"o", " ", "v", " ", "p", "?">>, <<"p", " ", "n", " ", "v">>, <<"x">> }

\* the options: the defaults, the plain-text key, contexts with a user,
\* with time windows of 30, 47 and 48 hours, with the default language and
\* domain written out, alone and beside a user, and with another language
KeyOptions ==
    { DefaultOptions,
      [context |-> EmptyContext, useSemanticKey |-> FALSE, semanticVersion |-> 1],
      [context |-> [userId |-> "u7"], useSemanticKey |-> TRUE,
       semanticVersion |-> 1],
      [context |-> [timeWindow |-> 30], useSemanticKey |-> FALSE,
       semanticVersion |-> 1],
      [context |-> [timeWindow |-> 47], useSemanticKey |-> FALSE,
       semanticVersion |-> 1],
      [context |-> [timeWindow |-> 48], useSemanticKey |-> FALSE,
       semanticVersion |-> 1],
      [context |-> [userId |-> "u7", language |-> "en", domain |-> "general"],
       useSemanticKey |-> TRUE, semanticVersion |-> 1],
      [context |-> [userId |-> "u7", language |-> "fr"],
       useSemanticKey |-> TRUE, semanticVersion |-> 1],
      [context |-> [language |-> "en", domain |-> "general"],
       useSemanticKey |-> TRUE, semanticVersion |-> 1] }

KeyInit ==
    /\ ValidateIdle
    /\ recent = <<>>
    /\ history = <<>>
    /\ PipelineInit

DeriveKey ==
    \E q \in KeyQueries, o \in KeyOptions :
        /\ Len(keyLog) < MaxKeyCalls
        /\ keyLog' = Append(keyLog, [query |-> q, options |-> o,
                                     key |-> createSemanticCacheKey(q, o)])
        /\ UNCHANGED <<recentVars, storeVars, callVars, faults, searchResults,
                       idx, validResults, probed, vpc, retrieved, frp, adds, gew, rcache>>

KeyNext == DeriveKey

SpecKey == KeyInit /\ [][KeyNext]_vars

\* ================================================================ SpecEmbed
\* getEmbeddingWithCache(query, context, cache, embeddingFunction) called on
\* its own, MaxEmbedCalls times one after the other, each await a step.  The
\* cache is any CacheInterface: a map from keys to values whose get and set
\* can reject.

\* the query arguments: the empty string, three queries of which two have
\* the same semantic key, and a value that is not a string
EmbedQueries ==
    { [type |-> "string", text |-> <<>>],
      [type |-> "string", text |-> <<"a">>],
      [type |-> "string", text |-> <<"p", " ", "q">>],
      [type |-> "string", text |-> <<"q", " ", "p">>],
      [type |-> "number", text |-> <<>>] }

EmbedContexts == {EmptyContext, [userId |-> "u7"]}

\* the cache arguments: a cache, objects without get or without set, null
EmbedCaches == {"cache", "noGet", "noSet", "null"}

\* the embeddingFunction arguments
EmbedFunctions == {"function", "undefined"}

\* !query || typeof query !== "string"
InvalidQuery(q) == q.type # "string" \/ q.text = <<>>

\* !cache || typeof cache.get !== "function" || typeof cache.set !== "function"
InvalidCache(c) == c # "cache"

\* !embeddingFunction || typeof embeddingFunction !== "function"
InvalidFunction(f) == f # "function"

\* what embeddingFunction(query, context) resolves to
EmbeddingOf(q, context) == <<"vector", q.text, DOMAIN context>>

\* what the cache holds under key k, null when it holds nothing
CacheValue(store, k) ==
    IF \E e \in store : e.key = k
    THEN (CHOOSE e \in store : e.key = k).value
    ELSE Null

CachePut(store, k, v) ==
    {e \in store : e.key # k} \cup {[key |-> k, value |-> v]}

EmbedInit ==
    /\ ValidateIdle
    /\ recent = <<>>
    /\ history = <<>>
    /\ PipelineInit

EmbedUnchanged ==
    UNCHANGED <<recentVars, storeVars, callVars, faults, searchResults, idx,
                validResults, probed, vpc, retrieved, keyLog, frp, adds,
                rcache>>

\* the call, up to its first await: the three argument checks, each of
\* which throws, and createSemanticCacheKey(query, {context, ...options})
GewCall ==
    \E q \in EmbedQueries, c \in EmbedContexts, cache \in EmbedCaches,
       f \in EmbedFunctions :
        /\ gew.pos \in {"idle", "done"}
        /\ gew.n < MaxEmbedCalls
        /\ gew' =
              IF InvalidQuery(q) \/ InvalidCache(cache) \/ InvalidFunction(f)
              THEN [gew EXCEPT !.pos = "done", !.n = @ + 1, !.query = q,
                               !.context = c, !.cache = cache, !.fn = f,
                               !.key = NoKey, !.embedding = Null,
                               !.trace = <<>>,
                               !.result = [NoEmbeddingResult EXCEPT
                                              !.status = "threw"]]
              ELSE [gew EXCEPT !.pos = "get", !.n = @ + 1, !.query = q,
                               !.context = c, !.cache = cache, !.fn = f,
                               !.key = createSemanticCacheKey(
                                           q.text,
                                           [DefaultOptions EXCEPT !.context = c]),
                               !.embedding = Null, !.trace = <<>>,
                               !.result = NoEmbeddingResult]
        /\ EmbedUnchanged

\* await cache.get(cacheKey), and the return of a value that is not null
GewGet ==
    \E ok \in BOOLEAN :
        /\ gew.pos = "get"
        /\ LET trace == Append(gew.trace, <<"get", gew.key>>)
               cachedResult == CacheValue(gew.store, gew.key)
           IN  gew' =
                 IF ~ok
                 THEN [gew EXCEPT !.pos = "done", !.trace = trace,
                                  !.result.status = "threw"]
                 ELSE IF cachedResult # Null
                 THEN [gew EXCEPT !.pos = "done", !.trace = trace,
                                  !.result = [status |-> "returned",
                                              source |-> "cache",
                                              embedding |-> cachedResult,
                                              cacheKey |-> gew.key]]
                 ELSE [gew EXCEPT !.pos = "embed", !.trace = trace]
        /\ EmbedUnchanged

\* await embeddingFunction(query, context)
GewEmbed ==
    \E ok \in BOOLEAN :
        /\ gew.pos = "embed"
        /\ LET trace == Append(gew.trace, <<"embed", gew.query.text>>)
           IN  gew' =
                 IF ~ok
                 THEN [gew EXCEPT !.pos = "done", !.trace = trace,
                                  !.result.status = "threw"]
                 ELSE [gew EXCEPT !.pos = "set", !.trace = trace,
                                  !.embedding = EmbeddingOf(gew.query, gew.context)]
        /\ EmbedUnchanged

\* a call that returns the embedding without writing it to the cache
GewSet_SkipsWrite ==
    /\ gew.pos = "set"
    /\ gew' = [gew EXCEPT !.pos = "done",
                          !.result = [status |-> "returned",
                                      source |-> "generated",
                                      embedding |-> gew.embedding,
                                      cacheKey |-> gew.key]]
    /\ EmbedUnchanged

\* await cache.set(cacheKey, embedding, 3600), and the return
GewSet ==
    \E ok \in BOOLEAN :
        /\ gew.pos = "set"
        /\ LET trace == Append(gew.trace, <<"set", gew.key, gew.embedding>>)
           IN  gew' =
                 IF ~ok
                 THEN [gew EXCEPT !.pos = "done", !.trace = trace,
                                  !.result.status = "threw"]
                 ELSE [gew EXCEPT !.pos = "done", !.trace = trace,
                                  !.store = CachePut(gew.store, gew.key,
                                                     gew.embedding),
                                  !.result = [status |-> "returned",
                                              source |-> "generated",
                                              embedding |-> gew.embedding,
                                              cacheKey |-> gew.key]]
        /\ EmbedUnchanged

EmbedNext ==
    \/ GewCall
    \/ GewGet
    \/ GewEmbed
    \/ GewSet

SpecEmbed == EmbedInit /\ [][EmbedNext]_vars

\* =========================================================== SpecRedisCache
\* A RedisEmbeddingCache used on its own: set, get, has and delete called in
\* any order on two keys, the keys of Redis expiring at any time once they
\* have a time to live.  Redis may hold, under the second key, a text that
\* another writer left there and that is not JSON.

CacheKeys == {"k1", "k2"}

\* the embeddings stored: arrays of finite numbers
CacheVectors == {<<1, 2>>, <<3>>}

\* the ttl arguments of set: left out, and 60 seconds
CacheTtls == {0, 60}

\* the defaultTTL of the constructor
DefaultTtl == 86400

\* getRedisKey(key): `${this.options.keyPrefix}${key}`
getRedisKey(key) == <<"emb:", key>>

\* JSON.stringify(dataToStore): {data: value}, with compressed: true added
\* when the compress option is set
WrapValue(value, compress) ==
    [json |-> TRUE, data |-> value, compressed |-> compress]

\* a text that JSON.parse rejects
NotJson == [json |-> FALSE, data |-> Null, compressed |-> FALSE]

\* the entry Redis holds under a key; `absent` when it holds none
AbsentEntry == [key |-> getRedisKey(""), text |-> NotJson, expires |-> FALSE]

RedisEntry(redis, rk) ==
    IF \E e \in redis : e.key = rk
    THEN CHOOSE e \in redis : e.key = rk
    ELSE AbsentEntry

RedisHas(redis, rk) == \E e \in redis : e.key = rk

\* SET key text, which also removes the time to live of the key
RedisSet(redis, rk, text) ==
    {e \in redis : e.key # rk} \cup {[key |-> rk, text |-> text, expires |-> FALSE]}

\* EXPIRE key seconds
RedisExpire(redis, rk) ==
    {IF e.key = rk THEN [e EXCEPT !.expires = TRUE] ELSE e : e \in redis}

RedisDel(redis, rk) == {e \in redis : e.key # rk}

\* the value of the last set of each key that succeeded, while no later set
\* of the key was tried and the key was neither deleted nor expired
Forget(written, key) == {w \in written : w.key # key}

RcInit ==
    /\ ValidateIdle
    /\ recent = <<>>
    /\ history = <<>>
    /\ PipelineInit

RcUnchanged ==
    UNCHANGED <<recentVars, storeVars, callVars, faults, searchResults, idx,
                validResults, probed, vpc, retrieved, keyLog, frp, adds, gew>>

\* new RedisEmbeddingCache(redisClient, {compress})
RcConstruct ==
    \E compress \in BOOLEAN, foreign \in BOOLEAN :
        /\ rcache.last.op = "none"
        /\ rcache' = [rcache EXCEPT
               !.compress = compress,
               !.redis = IF foreign
                         THEN {[key |-> getRedisKey("k2"), text |-> NotJson,
                                expires |-> FALSE]}
                         ELSE {},
               !.last.op = "new"]
        /\ RcUnchanged

\* a get that returns null for an entry marked as compressed
RcGet_DropsCompressed ==
    \E key \in CacheKeys, ok \in BOOLEAN :
        /\ rcache.last.op # "none"
        /\ LET data == RedisEntry(rcache.redis, getRedisKey(key))
               found == RedisHas(rcache.redis, getRedisKey(key))
           IN  rcache' = [rcache EXCEPT !.last =
                 [op |-> "get", key |-> key, clientOk |-> ok,
                  status |-> IF ok THEN "returned" ELSE "threw",
                  value |-> IF ok /\ found /\ data.text.json
                               /\ ~(rcache.compress /\ data.text.compressed)
                            THEN data.text.data ELSE Null]]
        /\ RcUnchanged

\* get(key): client.get, null when there is no data, JSON.parse inside a
\* try whose catch returns null, and parsed.data on both compress paths
RcGet ==
    \E key \in CacheKeys, ok \in BOOLEAN :
        /\ rcache.last.op # "none"
        /\ LET data == RedisEntry(rcache.redis, getRedisKey(key))
               found == RedisHas(rcache.redis, getRedisKey(key))
           IN  rcache' = [rcache EXCEPT !.last =
                 [op |-> "get", key |-> key, clientOk |-> ok,
                  status |-> IF ok THEN "returned" ELSE "threw",
                  value |-> IF ~ok \/ ~found THEN Null
                            ELSE IF ~data.text.json THEN Null
                            ELSE IF rcache.compress /\ data.text.compressed
                            THEN data.text.data
                            ELSE data.text.data]]
        /\ RcUnchanged

\* set(key, value, ttl): client.set of the wrapped value, then client.expire
\* with ttl || defaultTTL; a rejection of either is logged and rethrown
RcSet ==
    \E key \in CacheKeys, value \in CacheVectors, ttl \in CacheTtls,
       outcome \in {"ok", "setFailed", "expireFailed"} :
        /\ rcache.last.op # "none"
        /\ LET rk == getRedisKey(key)
               expiryTime == IF ttl # 0 THEN ttl ELSE DefaultTtl
               stored == RedisSet(rcache.redis, rk,
                                  WrapValue(value, rcache.compress))
           IN  rcache' = [rcache EXCEPT
                 !.redis = IF outcome = "setFailed" THEN @
                           ELSE IF outcome = "expireFailed" \/ expiryTime = 0
                           THEN stored
                           ELSE RedisExpire(stored, rk),
                 !.written = IF outcome = "ok"
                             THEN Forget(@, key) \cup {[key |-> key, value |-> value]}
                             ELSE Forget(@, key),
                 !.last = [op |-> "set", key |-> key,
                           clientOk |-> outcome = "ok",
                           status |-> IF outcome = "ok" THEN "returned" ELSE "threw",
                           value |-> Null]]
        /\ RcUnchanged

\* has(key): client.exists(redisKey) === 1
RcHas ==
    \E key \in CacheKeys, ok \in BOOLEAN :
        /\ rcache.last.op # "none"
        /\ rcache' = [rcache EXCEPT !.last =
              [op |-> "has", key |-> key, clientOk |-> ok,
               status |-> IF ok THEN "returned" ELSE "threw",
               value |-> IF ok /\ RedisHas(rcache.redis, getRedisKey(key))
                         THEN <<1>> ELSE Null]]
        /\ RcUnchanged

\* delete(key): client.del(redisKey) === 1
RcDelete ==
    \E key \in CacheKeys, ok \in BOOLEAN :
        /\ rcache.last.op # "none"
        /\ rcache' = [rcache EXCEPT
              !.redis = IF ok THEN RedisDel(@, getRedisKey(key)) ELSE @,
              !.written = IF ok THEN Forget(@, key) ELSE @,
              !.last = [op |-> "delete", key |-> key, clientOk |-> ok,
                        status |-> IF ok THEN "returned" ELSE "threw",
                        value |-> IF ok /\ RedisHas(rcache.redis, getRedisKey(key))
                                  THEN <<1>> ELSE Null]]
        /\ RcUnchanged

\* Redis removes a key whose time to live has run out
RcExpires ==
    \E key \in CacheKeys :
        /\ RedisHas(rcache.redis, getRedisKey(key))
        /\ RedisEntry(rcache.redis, getRedisKey(key)).expires
        /\ rcache' = [rcache EXCEPT
              !.redis = RedisDel(@, getRedisKey(key)),
              !.written = Forget(@, key),
              !.last = [op |-> "expired", key |-> key, clientOk |-> TRUE,
                        status |-> "none", value |-> Null]]
        /\ RcUnchanged

RcNext ==
    \/ RcConstruct
    \/ RcGet
    \/ RcSet
    \/ RcHas
    \/ RcDelete
    \/ RcExpires

SpecRedisCache == RcInit /\ [][RcNext]_vars

\* ================================================================== claims

\* the collaborators of the per-document processing
PerDocumentCalls ==
    {"durableQuery", "pdfCacheGet", "fetch", "memoryStore", "memoryQuery",
     "durableStore"}

\* the query of the current call has a character that is not white space
NonBlank == Trim(query) # <<>>

\* ----------------------------------------------------------------------- C1
\* C1: whatever the collaborators do, processQuery (here: called with a query
\* that is not blank) resolves to a list and never rejects to its caller.
C1_NeverRejects == NonBlank => result.status # "rejected"

\* ----------------------------------------------------------------------- C2
\* of several validated candidates exactly one branch threw and the others
\* have returned
ExactlyOneThrew ==
    /\ Len(validPDFs) >= 2
    /\ Cardinality({u \in Range(validPDFs) : bst[u] = "rejected"}) = 1
    /\ \A u \in Range(validPDFs) : bst[u] \in {"ok", "rejected"}

\* C2: when processing exactly one of several validated candidates throws,
\* processQuery resolves to the results of all the other candidates, in
\* order, without the failed one.
C2_PartialFailureIsolated ==
    ExactlyOneThrew =>
        /\ result.status = "resolved"
        /\ [i \in 1..Len(result.value) |-> result.value[i].pdfUrl]
               = SelectSeq(validPDFs, LAMBDA u : bst[u] = "ok")

\* ----------------------------------------------------------------------- C3
\* C3: for an empty or whitespace-only query processQuery calls no
\* collaborator at all and returns [].
C3_EmptyQueryShortCircuit ==
    (nCalls > 0 /\ Trim(query) = <<>>) =>
        /\ calls = {}
        /\ pc = "done" => result = Resolved(<<>>)

\* ----------------------------------------------------------------------- C4
\* C4: the query cache is looked up before the search provider is called,
\* and a run that hits the cache has called neither the search provider, nor
\* the validation probe, nor any per-document collaborator.
C4_CacheBeforeSearch ==
    NonBlank =>
        /\ "searchProvider" \in calls => "cacheGet" \in calls
        /\ "cacheHit" \in log =>
               calls \cap ({"searchProvider", "probe"} \cup PerDocumentCalls) = {}

\* ----------------------------------------------------------------------- C5
\* the current call repeats the query of the call before it, which resolved
RepeatsLast ==
    /\ nCalls >= 2
    /\ NonBlank
    /\ query = last.query
    /\ last.result.status = "resolved"

HoldsLastOutput ==
    /\ RepeatsLast
    /\ pc = "cache"
    /\ queryCache[QueryCacheKey(query)]
           = [present |-> TRUE, text |-> JSONstringify(last.result.value)]

C6_SearchFailureReturnsEmpty ==
    [][(pc = "search" /\ pc' # "search" /\ faults' # faults) =>
           /\ "searchError" \in log'
           /\ pc' = "done"
           /\ result' = Resolved(<<>>)
           /\ \A u \in Urls : bst'[u] = "none"
           /\ calls' \cap PerDocumentCalls = {}]_vars

C6_Witness ==
    /\ pc = "done"
    /\ "searchError" \in log
    /\ "searchProvider" \in calls
    /\ result = Resolved(<<>>)
    /\ \A u \in Urls : bst[u] = "none"

\* ----------------------------------------------------------------------- C7
\* the probe answered with status 200 and a PDF content type
AnsweredPdf(o) ==
    /\ o.kind = "response"
    /\ o.status = 200
    /\ o.contentType \in {"application/pdf", "application/pdf; charset=binary"}

\* the first n candidates whose probe answered with a PDF, in their order
RECURSIVE KeptOf(_)
KeptOf(n) ==
    IF n = 0 THEN <<>>
    ELSE IF AnsweredPdf(probed[n].outcome)
         THEN Append(KeptOf(n - 1), searchResults[n])
         ELSE KeptOf(n - 1)

\* C7: validatePDFResults sends one probe per candidate, in order and never
\* again, keeps exactly the candidates whose probe answered 200 with a PDF
\* content type, in their original order, whatever the other probes did, and
\* returns them once every candidate has been probed.
C7_KeepsReachablePdfs ==
    /\ Len(probed) = idx - 1
    /\ \A i \in 1..Len(probed) : probed[i].link = searchResults[i]
    /\ validResults = KeptOf(Len(probed))
    /\ vpc = "returned" =>
           /\ Len(probed) = Len(searchResults)
           /\ validResults = validatePDFResults(searchResults,
                                 [i \in 1..Len(probed) |-> probed[i].outcome])

C7_Witness ==
    /\ vpc = "returned"
    /\ Len(searchResults) = 3
    /\ searchResults[1] # searchResults[3]
    /\ AnsweredPdf(probed[1].outcome)
    /\ probed[2].outcome.kind = "timeout"
    /\ AnsweredPdf(probed[3].outcome)
    /\ validResults = <<searchResults[1], searchResults[3]>>

\* ----------------------------------------------------------------------- C8
\* C8: when the search for a query that is not blank succeeded, no candidate
\* passed validation and the call resolved, it resolved to the empty list.
C8_NoneValidReturnsEmpty ==
    (NonBlank /\ "found" \in log /\ validPDFs = <<>> /\ pc = "done"
        /\ result.status = "resolved") => result.value = <<>>

\* ----------------------------------------------------------------------- C9
NonDecreasingByPage(pages) ==
    \A j \in 1..(Len(pages) - 1) : pages[j].pageNumber <= pages[j + 1].pageNumber

\* C9: in every DocumentResult processQuery returns on a cache miss,
\* relevantPages is non-decreasing by pageNumber.
C9_PagesSorted ==
    (result.status = "resolved" /\ "cacheHit" \notin log) =>
        \A i \in 1..Len(result.value) :
            NonDecreasingByPage(result.value[i].relevantPages)

\* a miss that resolved with the passages of the large document retrieved out
\* of page order, those of a later group before those of an earlier one
C9_Witness ==
    /\ result.status = "resolved"
    /\ "cacheHit" \notin log
    /\ "u2" \in Range(validPDFs)
    /\ Len(bres["u2"]) > 1
    /\ ~NonDecreasingByPage(bres["u2"])
    /\ GroupOf("u2", bres["u2"][1].pageNumber) = 2
    /\ \E i \in 1..Len(result.value) :
           /\ result.value[i].pdfUrl = "u2"
           /\ Len(result.value[i].relevantPages) = Len(bres["u2"])

\* ---------------------------------------------------------------------- C11
\* the page numbers of the passages the processPdf branch of u returned
PagesReturned(u) == [i \in 1..Len(bres[u]) |-> bres[u][i].pageNumber]

\* C11: the memory tier is reset when a query completes, so the passages a
\* run retrieves from it for a document processed as one group are the
\* chunks that run stored, every page once: no call starts with chunks in
\* the memory tier and no page is returned twice.
C11_EphemeralIsolated ==
    /\ pc \in {"recent", "search", "cache"} =>
           \A u \in Urls : \A g \in 1..NumGroups(u) : memory[u][g] = 0
    /\ "foundInPinecone" \notin log =>
           \A u \in Urls : NumGroups(u) = 1 => NoDuplicates(PagesReturned(u))

\* ---------------------------------------------------------------------- C12
\* what the step added to the collaborators called
NewCalls == calls' \ calls

\* C12: a processPdf step in which no collaborator call fails and the
\* durable tier holds passages of the document for the query returns exactly
\* those passages, serialized, and neither fetches the document nor stores
\* anything in either tier.
C12_ReuseDecision ==
    [][\A u \in Urls :
          (/\ bst[u] = "todo"
           /\ bst'[u] # "todo"
           /\ faults' = faults
           /\ retrieveDurable(u, query, TRUE) # <<>>) =>
              /\ bst'[u] = "ok"
              /\ bres'[u] = serializeDocuments(retrieveDurable(u, query, TRUE),
                                               Candidate(u))
              /\ memory' = memory
              /\ pendingStores' = pendingStores
              /\ durable' = durable
              /\ NewCalls \subseteq {"durableQuery", "cacheSet"}]_vars

C12_Witness ==
    /\ nCalls = 2
    /\ "foundInPinecone" \in log
    /\ bst["u1"] = "ok"
    /\ durable["u1"] = 1
    /\ memory["u1"][1] = 1
    /\ pendingStores["u1"] = 0
    /\ Len(bres["u1"]) = 2

\* ---------------------------------------------------------------------- C13
\* the memory tier holds no chunk of u
MemoryEmptyFor(u) == \A g \in 1..NumGroups(u) : memory[u][g] = 0

\* retrievePdfEmbeddings answers [] for a tier that holds nothing for the
\* URL and for a call that fails, in both tiers
EmptyNotError ==
    \A u \in Urls :
        /\ retrieveDurable(u, query, FALSE) = <<>>
        /\ retrieveMemory(u, query, memory, FALSE) = <<>>
        /\ durable[u] = 0 => retrieveDurable(u, query, TRUE) = <<>>
        /\ MemoryEmptyFor(u) => retrieveMemory(u, query, memory, TRUE) = <<>>

\* the step of the processPdf branch of u ended in one of its three ways:
\* the passages Pinecone returned, fresh processing, or a failed load
BranchOutcome(u) ==
    \/ /\ faults' = faults
       /\ retrieveDurable(u, query, TRUE) # <<>>
       /\ bst'[u] = "ok"
       /\ bres'[u] = serializeDocuments(retrieveDurable(u, query, TRUE),
                                        Candidate(u))
    \/ /\ bst'[u] = "ok"
       /\ pendingStores'[u] = pendingStores[u] + 1
       /\ "fetch" \in calls'
    \/ /\ bst'[u] = "rejected"
       /\ "loadError" \in log'
       /\ faults' > faults

\* C13: retrievePdfEmbeddings returns the empty list, in either tier, when
\* the tier holds nothing for the URL and when its call fails; it never
\* rejects processPdf, which after an empty or failed durable lookup goes on
\* to process the document afresh.
C13_RetrieveNeverErrors ==
    /\ []EmptyNotError
    /\ [][\A u \in Urls :
             (bst[u] = "todo" /\ bst'[u] # "todo") =>
                 /\ BranchOutcome(u)
                 /\ (durable[u] = 0 \/ "retrieveError" \in (log' \ log)) =>
                        ("fetch" \in calls' \/ bst'[u] = "rejected")]_vars

C13_Witness ==
    /\ validPDFs = <<"u1">>
    /\ "retrieveError" \in log
    /\ bst["u1"] = "ok"
    /\ Len(bres["u1"]) > 0
    /\ pendingStores["u1"] >= 1
    /\ result.status = "resolved"

\* ---------------------------------------------------------------------- C14
\* the most passages a retrieve of the tier may return for the query
TierBound(tier, q) ==
    IF tier = "memory" THEN 5 ELSE IF q = <<>> THEN 100 ELSE 10

\* C14: whatever the two tiers hold, retrievePdfEmbeddings(url, query, tier)
\* returns passages of that url only: at most 5 from the memory tier, at most
\* 10 from the durable tier for a non-empty query and at most 100 for the
\* empty one.
C14_RetrievalPerDocument ==
    /\ Len(retrieved.passages) <= TierBound(retrieved.tier, retrieved.query)
    /\ \A i \in 1..Len(retrieved.passages) :
           retrieved.passages[i].pdfUrl = retrieved.url

\* both tiers hold chunks of both documents, the durable tier more than a
\* hundred of the document asked for, and the retrieve returned a hundred
C14_Witness ==
    /\ \A u \in Urls : memory[u][1] > 0 /\ durable[u] > 0
    /\ retrieved.tier = "durable"
    /\ retrieved.query = <<>>
    /\ retrieved.url = "u2"
    /\ durable["u2"] * NumPages("u2") > 100
    /\ Len(retrieved.passages) = 100

\* ------------------------------------------------------------- C15 (key)

SameInputs(i, j) ==
    /\ keyLog[i].query = keyLog[j].query
    /\ keyLog[i].options = keyLog[j].options

Count(s, w) == Cardinality({i \in 1..Len(s) : s[i] = w})

SameBag(s, t) == \A w \in Range(s) \cup Range(t) : Count(s, w) = Count(t, w)

\* the two queries have the same extracted entities, nouns and verbs, in
\* whatever order, and the same question type and negation flag
SameExtraction(q1, q2) ==
    LET t1 == NormalizeQuery(q1)
        t2 == NormalizeQuery(q2)
    IN  /\ SameBag(Topics(t1), Topics(t2))
        /\ SameBag(Nouns(t1), Nouns(t2))
        /\ SameBag(Verbs(t1), Verbs(t2))
        /\ QuestionType(t1) = QuestionType(t2)
        /\ IsNegative(t1) = IsNegative(t2)

\* C16: two queries whose extracted entities, nouns and verbs are the same
\* bags (a bag larger than its cap of 3/5/3 included), with the same
\* question type, negation flag and context, get the same semantic key.
C16_OrderInsensitive ==
    \A i, j \in 1..Len(keyLog) :
        ( /\ keyLog[i].options = keyLog[j].options
          /\ keyLog[i].options.useSemanticKey
          /\ SameExtraction(keyLog[i].query, keyLog[j].query) )
        => keyLog[i].key = keyLog[j].key

\* ------------------------------------------------------ C17 (normalization)

\* length of the run of characters other than white space that s starts with
RunLen(s) ==
    CHOOSE n \in 1..Len(s) :
        /\ \A i \in 1..n : ~IsSpace(s[i])
        /\ n = Len(s) \/ IsSpace(s[n + 1])

\* the words of a query: its maximal runs of characters other than white
\* space, in lower case
RECURSIVE WordList(_)
WordList(s) ==
    IF s = <<>> THEN <<>>
    ELSE IF IsSpace(s[1]) THEN WordList(Tail(s))
    ELSE <<[i \in 1..RunLen(s) |-> Lower(s[i])]>>
         \o WordList(SubSeq(s, RunLen(s) + 1, Len(s)))

\* C17: two queries that differ only in letter case, in leading or trailing
\* white space or in the length of the runs of white space between their
\* words get the same key, with and without the semantic signature.
C17_KeyNormalized ==
    \A i, j \in 1..Len(keyLog) :
        ( /\ keyLog[i].options = keyLog[j].options
          /\ WordList(keyLog[i].query) = WordList(keyLog[j].query) )
        => keyLog[i].key = keyLog[j].key

\* two spellings of "p q" that differ in case and in white space, keyed
\* without the semantic signature
C17_Witness ==
    /\ Len(keyLog) = 2
    /\ keyLog[1].query = <<"P", " ", " ", "q">>
    /\ keyLog[2].query = <<"\t", "p", "\t", "Q", " ">>
    /\ keyLog[1].options = keyLog[2].options
    /\ ~keyLog[1].options.useSemanticKey
    /\ keyLog[1].key = keyLog[2].key

\* ------------------------------------------------- C18 (undeserializable)

\* the current call reads, without a Redis failure, an entry under its key
\* whose text cannot be deserialized
ReadsUndeserializable ==
    /\ pc = "cache"
    /\ pc' # "cache"
    /\ faults' = faults
    /\ queryCache[QueryCacheKey(query)].present
    /\ ~Deserializable(queryCache[QueryCacheKey(query)].text)

\* C18: when the value stored under the query's key cannot be deserialized,
\* processQuery treats the lookup as a miss: it does not fail and goes on
\* to process the validated documents.
C18_UndeserializableIsMiss ==
    [][ReadsUndeserializable =>
           /\ result'.status # "rejected"
           /\ "processing" \in log']_vars

\* ------------------------------------------------- C19 (durable store fails)

\* the durable store of u settles with a failure
StoreFails(u) ==
    /\ pendingStores'[u] < pendingStores[u]
    /\ faults' > faults

\* the result of processQuery holds what the processPdf branch of u returned
ResponseHolds(u) ==
    /\ result.status = "resolved"
    /\ \E i \in 1..Len(result.value) : result.value[i] = serializeResults(bres[u])

\* C19: when the durable store of a freshly processed document fails, the
\* failure is logged by storePdfEmbeddings, which resolves to false: nothing
\* is thrown into processPdf, what the branch returned (the passages it
\* computed through the memory tier) stays as it is and so does the outcome
\* of processQuery; a call whose processPdf branches all returned passages
\* answers with those passages.
C19_StoreFailureHarmless ==
    /\ [][\A u \in Urls : StoreFails(u) =>
             /\ "storeError" \in log'
             /\ "storeRejected" \notin log'
             /\ durable' = durable
             /\ bst' = bst
             /\ bres' = bres
             /\ result' = result
             /\ pc' = pc]_vars
    /\ []( ( /\ pc = "done"
              /\ "storeError" \in log
              /\ \A v \in Range(validPDFs) : bst[v] = "ok" /\ bres[v] # <<>> )
            => \A u \in Range(validPDFs) : ResponseHolds(u) )

\* a call that processed u2 afresh has answered with its passages, and the
\* durable store of a document it processed has failed
C19_Witness ==
    /\ pc = "done"
    /\ "storeError" \in log
    /\ "fetch" \in calls
    /\ bst["u2"] = "ok"
    /\ bres["u2"] # <<>>
    /\ ResponseHolds("u2")
    /\ durable["u2"] = 0

\* ------------------------------------------------------- C20 (fan-out)

\* a memory store that holds the chunks of group g of u and nothing else
OnlyGroup(u, g) ==
    [v \in Urls |-> [h \in 1..NumGroups(v) |-> IF v = u /\ h = g THEN 1 ELSE 0]]

\* the passages of the group g of u processed on its own: its pages stored
\* and the best of them retrieved
GroupAlone(u, q, g) == retrieveMemory(u, q, OnlyGroup(u, g), TRUE)

\* the processPdf branch of u processes the document afresh, no collaborator
\* fails, and the memory store had no chunk of u before
FreshRun(u) ==
    /\ bst[u] = "todo"
    /\ bst'[u] = "ok"
    /\ pendingStores'[u] > pendingStores[u]
    /\ faults' = faults
    /\ \A g \in 1..NumGroups(u) : memory[u][g] = 0

\* C20: for a document of more than 50 pages, the set of scored passages
\* findRelevantPages obtains for the whole page list is the union of the sets
\* obtained for each consecutive group of 50 pages processed on its own.
C20_FanOutEquivalence ==
    [][\A u \in Urls :
           (NumPages(u) > GroupSize /\ FreshRun(u)) =>
               Range(bres'[u]) =
                   UNION {Range(serializeDocuments(GroupAlone(u, query, g),
                                                   Candidate(u))) :
                              g \in 1..NumGroups(u)}]_vars

\* ------------------------------------------------------ C22 (fan-in barrier)

\* C22: processQuery leaves the per-document processing (it aggregates,
\* returns or fails) only after every processPdf branch it started has
\* completed, with its passages or with its failure: no branch is still
\* running once the call has settled.
C22_FanInBarrier ==
    (pc = "done" /\ "processing" \in log) =>
        \A u \in Range(validPDFs) : ~BranchRunning(u)

\* ---------------------------------------------------- C23 (zero passages)

\* every processPdf branch has returned, the branch of u with no passage and
\* another one with passages
YieldsNothing(u) ==
    /\ pc = "done"
    /\ \A v \in Range(validPDFs) : bst[v] = "ok"
    /\ u \in Range(validPDFs)
    /\ bres[u] = <<>>
    /\ \E v \in Range(validPDFs) : bres[v] # <<>>

\* C23: a document whose processing yields no passage contributes an empty
\* result for itself only: processQuery resolves and its list holds the
\* results of the documents that yielded passages.
C23_EmptyContribution ==
    \A u \in Urls :
        YieldsNothing(u) =>
            /\ result.status = "resolved"
            /\ \A v \in Range(validPDFs) :
                   bres[v] # <<>> =>
                       \E i \in 1..Len(result.value) :
                           result.value[i] = serializeResults(bres[v])

\* ------------------------------------------------- C24 (sub-run scoping)

\* C24: when a document of more than 50 pages is processed afresh, the
\* retrieve of a page group returns passages of that group only, so the
\* concatenated result of the document holds no passage twice.
C24_SubRunScoped ==
    [][\A u \in Urls :
           (NumPages(u) > GroupSize /\ FreshRun(u)) => NoDuplicates(bres'[u])]_vars

\* ------------------------------------------- C25 (store before retrieve)

\* the frame is a findRelevantPages run that stores and retrieves
IsLeaf(f) == f.pos \in {"store", "retrieve", "done"}

\* C25: in a findRelevantPages run over at most 50 pages the retrieve is
\* issued only once the store of the run has completed, with true or false;
\* when the store succeeded, the retrieve searches every chunk the run has
\* just stored.
C25_StoreBeforeRetrieve ==
    \A i \in 1..Len(frp.frames) :
        LET f == frp.frames[i]
        IN  /\ IsLeaf(f) => Len(f.docs) <= GroupSize
            /\ f.pos \in {"retrieve", "done"} => f.stored # "pending"
            /\ (f.stored = "true" /\ f.retrieve = "ok") =>
                   /\ Range(f.docs) \subseteq f.seen
                   /\ f.passages = TopPages(frp.query, f.seen, MemoryTopK)

\* a run over three pages has stored them and its retrieve returned the three
C25_Witness ==
    /\ Len(frp.frames) = 1
    /\ frp.returned
    /\ Len(frp.frames[1].docs) = 3
    /\ frp.frames[1].stored = "true"
    /\ frp.frames[1].retrieve = "ok"
    /\ {frp.results[j].pageNumber : j \in 1..Len(frp.results)} = {1, 2, 3}

\* -------------------------------------------- C26 (completion order)

\* the page groups of a document complete one after the other, in order
InOrder(n) == [i \in 1..2 * n |-> (i + 1) \div 2]

AllOk(n) == [i \in 1..2 * n |-> TRUE]

\* what processQuery puts into its list for u when the page groups of u
\* complete in order and no collaborator fails
InOrderResult(u) ==
    serializeResults(
        serializeDocuments(
            findRelevantPages(u, query, InOrder(NumGroups(u)),
                              AllOk(NumGroups(u)), memory).relevantPages,
            Candidate(u)))

\* C26: with the same collaborator responses, the result of a document in
\* the list processQuery returns (its passages and their order) is the same
\* for every order in which its page groups complete.
C26_OrderIndependent ==
    [][\A u \in Urls :
           FreshRun(u) => serializeResults(bres'[u]) = InOrderResult(u)]_vars

\* ------------------------------------------- C27 (fire-and-forget write)

\* the call resolves after processing its documents
ReturnsOnMiss ==
    /\ pc # "done"
    /\ pc' = "done"
    /\ "processing" \in log'
    /\ result'.status = "resolved"

TheWrite(list) == [key |-> QueryCacheKey(query), text |-> JSONstringify(list)]

\* a write of the Query Cache settles
WriteSettles == pendingWrites' # pendingWrites /\ pendingWrites' \subseteq pendingWrites

\* C27: on a cache miss processQuery returns while its write of the Query
\* Cache is still pending, the cache not yet changed; when the write settles
\* later, even with a failure, the result of the call stays what it was and
\* the call is not rejected.
C27_FireAndForgetWrite ==
    /\ [][ReturnsOnMiss =>
              /\ TheWrite(result'.value) \in pendingWrites'
              /\ queryCache' = queryCache]_vars
    /\ [][WriteSettles => result' = result /\ pc' = pc]_vars

\* the call has returned passages, its write of the Query Cache has failed
\* since, and the result stands
C27_Witness ==
    /\ pc = "done"
    /\ "processing" \in log
    /\ result.status = "resolved"
    /\ result.value # <<>>
    /\ pendingWrites = {}
    /\ pendingStores = [u \in Urls |-> 0]
    /\ faults = 1
    /\ nCalls = 1
    /\ ~queryCache[QueryCacheKey(query)].present
    /\ "storeError" \notin log

\* ------------------------------------------------ C28 (fan-out partition)

\* the calls made for the chunks of the first call, in the order made
ChunkFrames == SubSeq(frp.frames, 2, Len(frp.frames))

RECURSIVE Concat(_)
Concat(lists) ==
    IF lists = <<>> THEN <<>> ELSE Head(lists) \o Concat(Tail(lists))

\* C28: findRelevantPages splits a page list only when it has more than 50
\* pages; the chunks are consecutive slices that partition the list in
\* order, none empty and all but possibly the last of exactly 50 pages; each
\* recursive call is on at most 50 pages, so the recursion ends after one
\* level.
C28_FanOutPartition ==
    /\ \A i \in 1..Len(frp.frames) :
           LET f == frp.frames[i]
           IN  /\ f.depth <= 1
               /\ f.pos = "split" <=> (f.pos # "enter" /\ Len(f.docs) > GroupSize)
               /\ f.depth = 1 => Len(f.docs) \in 1..GroupSize
    /\ frp.frames[1].pos = "split" =>
           /\ Concat([j \in 1..Len(ChunkFrames) |-> ChunkFrames[j].docs])
                  = frp.frames[1].docs
           /\ \A j \in 1..(Len(ChunkFrames) - 1) :
                  Len(ChunkFrames[j].docs) = GroupSize
    /\ frp.frames[1].pos \notin {"enter", "split"} => Len(frp.frames) = 1

\* a list of 101 pages was cut into chunks of 50, 50 and 1 pages, and the
\* call has returned after its three recursive calls
C28_Witness ==
    /\ frp.returned
    /\ Len(frp.frames[1].docs) = 101
    /\ Len(frp.frames) = 4
    /\ [j \in 1..3 |-> Len(ChunkFrames[j].docs)] = <<50, 50, 1>>
    /\ \A j \in 1..3 : ChunkFrames[j].pos = "done"

\* ------------------------------------------- C29 (concurrent submissions)

AllAddsFinished == \A a \in Adders : adds[a].pos = "idle"

\* C29: whatever the interleaving of the list commands of concurrent
\* addToRecentSearches calls, two calls with the same query included, the
\* recent-queries list holds no query twice once all calls have finished.
C29_NoDuplicatesConcurrent == AllAddsFinished => NoDuplicates(recent)

\* ---------------------------------------------------- C30 (tiers of a store)

\* the processPdf branch of u completes in this step
BranchCompletes(u) == bst[u] = "todo" /\ bst'[u] # "todo"

\* the completing branch of u found the document in the durable tier
Reuses(u) == faults' = faults /\ retrieveDurable(u, query, TRUE) # <<>>

\* C30 as stated: no processPdf call stores the chunks of its document into
\* the memory tier and also issues their store into the durable tier.
C30_AsStated ==
    [][\A u \in Urls :
           BranchCompletes(u) =>
               ~(memory'[u] # memory[u] /\ pendingStores'[u] > pendingStores[u])]_vars

\* C30: every store writes to one tier only; a processPdf call that returns
\* what the durable tier holds, or that fails to load the document, stores
\* into neither tier; a call that processes its document afresh stores its
\* chunks into the memory tier and issues exactly one store of the same
\* document into the durable tier; no call touches the chunks of another
\* document.
C30_OneTierPerStore ==
    /\ [][durable' # durable => memory' = memory]_vars
    /\ [][memory' # memory => durable' = durable]_vars
    /\ [][\A u \in Urls :
              BranchCompletes(u) =>
                  /\ \A v \in Urls \ {u} :
                         memory'[v] = memory[v] /\ pendingStores'[v] = pendingStores[v]
                  /\ (Reuses(u) \/ bst'[u] = "rejected") =>
                         memory' = memory /\ pendingStores' = pendingStores
                  /\ (~Reuses(u) /\ bst'[u] = "ok") =>
                         /\ pendingStores'[u] = pendingStores[u] + 1
                         /\ \A g \in 1..NumGroups(u) :
                                memory'[u][g] \in {memory[u][g], memory[u][g] + 1}]_vars

\* a document processed afresh by the one call made so far is held by both
\* tiers
C30_Witness ==
    /\ nCalls = 1
    /\ bst["u1"] = "ok"
    /\ memory["u1"][1] = 1
    /\ durable["u1"] = 1
    /\ pendingStores["u1"] = 0

\* ------------------------------------------------- C31 (what is cached)

\* a write of the Query Cache is issued
WriteIssued == \E w \in pendingWrites' : w \notin pendingWrites

\* the call returns what it read from the Query Cache
ReturnsOnHit ==
    /\ pc = "cache"
    /\ pc' = "done"
    /\ "cacheHit" \in log'
    /\ result'.status = "resolved"

\* C31: a write of the Query Cache is issued only by a call that returns
\* after a miss, once every processPdf branch of the call has finished; it
\* is one write, under the key the lookup of the call read, of a text that
\* deserializes to the list the call returns; a write that succeeds leaves
\* that text under that key, and a later hit returns the list the entry
\* under the key of its query deserializes to.
C31_CachedIsReturned ==
    /\ [][WriteIssued =>
              /\ ReturnsOnMiss
              /\ \A u \in Range(validPDFs) : bst'[u] = "ok"
              /\ \A u \in Urls \ Range(validPDFs) : bst'[u] = "none"
              /\ pendingWrites' = pendingWrites \cup {TheWrite(result'.value)}
              /\ Deserializable(JSONstringify(result'.value))
              /\ JSONparse(JSONstringify(result'.value)) = result'.value]_vars
    /\ [][ReturnsOnMiss => WriteIssued \/ TheWrite(result'.value) \in pendingWrites]_vars
    /\ [][\A k \in DOMAIN queryCache :
              queryCache'[k] # queryCache[k] =>
                  \E w \in pendingWrites \ pendingWrites' :
                      /\ w.key = k
                      /\ queryCache'[k] = [present |-> TRUE, text |-> w.text]]_vars
    /\ [][ReturnsOnHit =>
              /\ queryCache[QueryCacheKey(query)].present
              /\ result'.value = JSONparse(queryCache[QueryCacheKey(query)].text)
              /\ JSONstringify(result'.value) = queryCache[QueryCacheKey(query)].text]_vars

\* the second call asked the query of the first again, hit the entry the
\* first had written for both documents, and returned the list of the first
C31_Witness ==
    /\ nCalls = 2
    /\ pc = "done"
    /\ "cacheHit" \in log
    /\ query = last.query
    /\ Len(result.value) = 2
    /\ result = last.result
    /\ queryCache[QueryCacheKey(query)].text = JSONstringify(result.value)
    /\ pendingWrites = {}
    /\ faults = 0

\* --------------------------------------------- C32 (one result per document)

\* what the current call has logged of failed collaborator calls that bear
\* on its result
FailuresLogged ==
    log \cap {"searchError", "loadError", "retrieveError", "embeddingError"}

\* the call missed the Query Cache, had a validated candidate, and has
\* settled without a failure of a collaborator
SettledCleanMiss ==
    /\ pc = "done"
    /\ "processing" \in log
    /\ validPDFs # <<>>
    /\ FailuresLogged = {}

\* C32: on a cache miss with at least one validated candidate and no
\* failure, processQuery returns one DocumentResult per validated candidate,
\* in the validated order, each with the url, title, snippet and thumbnail
\* of its own candidate and with passages of that url only.
C32_OneResultPerCandidate ==
    SettledCleanMiss =>
        /\ result.status = "resolved"
        /\ Len(result.value) = Len(validPDFs)
        /\ \A i \in 1..Len(validPDFs) :
               LET r == result.value[i]
                   c == Candidate(validPDFs[i])
               IN  /\ r.pdfUrl = c.link
                   /\ r.title = c.title
                   /\ r.snippet = c.snippet
                   /\ r.thumbnail = c.thumbnail
                   /\ r.relevantPages # <<>>
                   /\ \A j \in 1..Len(r.relevantPages) :
                          r.relevantPages[j].pdfUrl = c.link

\* the first call found two documents, processed both afresh without a
\* failure and returned; its cache write is still pending
C32_Witness ==
    /\ SettledCleanMiss
    /\ nCalls = 1
    /\ faults = 0
    /\ validPDFs = <<"u1", "u2">>
    /\ Len(result.value) = 2
    /\ pendingWrites # {}
    /\ pendingStores = [u \in Urls |-> 1]

\* ------------------------------------------------ C33 (additive durable tier)

\* what a durable retrieve returns for u and the query of the current call
\* when the tier holds d[u] copies of the chunks of u
DurableAnswer(u, d) ==
    TopK(query, u, [p \in 1..NumPages(u) |-> d[u]],
         IF query = <<>> THEN DurableAllK ELSE DurableTopK)

\* a durable store of u settles with success
StoreSucceeds(u) == pendingStores'[u] < pendingStores[u] /\ faults' = faults

\* C33: no step of the pipeline removes or replaces a chunk the durable tier
\* holds; the tier changes only when a store settles, and a store that
\* succeeds adds one copy of every chunk of its document to those already
\* there and leaves what a retrieve returns for every other document as it
\* was; so two stores of one document, one after the other or pending
\* together, leave both sets of chunks in the tier.
C33_DurableAdditive ==
    [][\A u \in Urls :
           /\ durable'[u] >= durable[u]
           /\ durable'[u] # durable[u] => StoreSucceeds(u)
           /\ StoreSucceeds(u) =>
                  /\ durable'[u] = durable[u] + 1
                  /\ \A v \in Urls \ {u} :
                         /\ durable'[v] = durable[v]
                         /\ DurableAnswer(v, durable') = DurableAnswer(v, durable)]_vars

\* two stores of u1 were pending together and both have succeeded: the
\* durable tier holds the chunks of u1 twice, and those of u2 once
C33_Witness ==
    /\ durable = [u \in Urls |-> IF u = "u1" THEN 2 ELSE 1]
    /\ pendingStores = [u \in Urls |-> 0]
    /\ nCalls = 2
    /\ Len(retrieveDurable("u1", <<>>, TRUE)) = 2 * NumPages("u1")

\* ---------------------------------------------------------- C34 (key format)

DayBucket(c) == (IF "timeWindow" \in DOMAIN c THEN c.timeWindow ELSE 0) \div 24

LanguageOf(c) == IF "language" \in DOMAIN c THEN c.language ELSE "en"

DomainOf(c) == IF "domain" \in DOMAIN c THEN c.domain ELSE "general"

UserOf(c) == IF "userId" \in DOMAIN c THEN c.userId ELSE ""

\* the two calls differ at most in their contexts, and these have the same
\* user, the same day bucket and, with "en" and "general" standing for a
\* language or domain left out, the same language and domain
SameUpToDefaults(i, j) ==
    LET a == keyLog[i].options
        b == keyLog[j].options
    IN  /\ keyLog[i].query = keyLog[j].query
        /\ a.useSemanticKey = b.useSemanticKey
        /\ a.semanticVersion = b.semanticVersion
        /\ UserOf(a.context) = UserOf(b.context)
        /\ DayBucket(a.context) = DayBucket(b.context)
        /\ LanguageOf(a.context) = LanguageOf(b.context)
        /\ DomainOf(a.context) = DomainOf(b.context)

HasProperties(i) == DOMAIN keyLog[i].options.context # {}

\* C35 as stated: with all other inputs equal, two contexts whose time
\* windows fall in the same whole-day bucket give the same key, and a
\* language or domain left out behaves as "en" or "general".
C35_AsStated ==
    \A i, j \in 1..Len(keyLog) :
        SameUpToDefaults(i, j) => keyLog[i].key = keyLog[j].key

\* C35: with all other inputs equal, two contexts that each have at least
\* one property give the same key when their time windows fall in the same
\* whole-day bucket and their languages and domains are the same, "en" and
\* "general" standing for a language or domain left out; a context without
\* any property gets no context signature, so its key differs from the key
\* of every context that has one, the context {language: "en", domain:
\* "general"} included.
C35_BucketsAndDefaults ==
    \A i, j \in 1..Len(keyLog) :
        /\ (SameUpToDefaults(i, j) /\ HasProperties(i) /\ HasProperties(j))
               => keyLog[i].key = keyLog[j].key
        /\ (HasProperties(i) /\ ~HasProperties(j))
               => keyLog[i].key # keyLog[j].key

\* one query, keyed with a time window of 30 hours and with one of 47
\* hours, both in day 1: the keys are the same
C35_Witness ==
    /\ Len(keyLog) = 2
    /\ keyLog[1].query = keyLog[2].query
    /\ keyLog[1].options.context = [timeWindow |-> 30]
    /\ keyLog[2].options.context = [timeWindow |-> 47]
    /\ keyLog[1].key = keyLog[2].key

\* ------------------------------------- C36 (fire-and-forget durable store)

\* a durable store of u is started
StoreStarts(u) == pendingStores'[u] > pendingStores[u]

\* a durable store of u settles, with success or with a failure
StoreSettles(u) == pendingStores'[u] < pendingStores[u]

\* C36: a durable store of a document is started only by a processPdf call
\* that found nothing for it in the durable tier, has fetched the document
\* and has retrieved its passages from the memory tier; the call returns
\* these passages with the store still pending and the durable tier
\* unchanged; a call that fails to load its document starts no store; and
\* when the store settles later, with success, with false or with a
\* rejection, the outcome of the processPdf call and of processQuery stays
\* what it was.
C36_FireAndForgetStore ==
    /\ [][\A u \in Urls :
              StoreStarts(u) =>
                  /\ BranchCompletes(u)
                  /\ bst'[u] = "ok"
                  /\ durable[u] = 0 \/ faults' > faults
                  /\ {"durableQuery", "fetch", "memoryStore", "memoryQuery",
                      "durableStore"} \subseteq calls'
                  /\ pendingStores'[u] = pendingStores[u] + 1
                  /\ durable' = durable
                  /\ \A i \in 1..Len(bres'[u]) : bres'[u][i].pdfUrl = u]_vars
    /\ [][\A u \in Urls :
              (BranchCompletes(u) /\ bst'[u] = "rejected") => ~StoreStarts(u)]_vars
    /\ [][\A u \in Urls :
              StoreSettles(u) =>
                  /\ bst' = bst
                  /\ bres' = bres
                  /\ result' = result
                  /\ pc' = pc
                  /\ "storeRejected" \notin log']_vars

\* the call for one document has returned its passages and its cache write
\* has settled, while the durable store it started is still pending
C36_Witness ==
    /\ pc = "done"
    /\ result.status = "resolved"
    /\ validPDFs = <<"u1">>
    /\ bst["u1"] = "ok"
    /\ bres["u1"] # <<>>
    /\ "durableStore" \in calls
    /\ pendingStores["u1"] = 1
    /\ durable["u1"] = 0
    /\ pendingWrites = {}
    /\ queryCache[QueryCacheKey(query)].present

\* ---------------------------------------------------------- C37 (termination)

\* C37: when every collaborator call a processQuery call awaits returns or
\* fails in the end, the call resolves or rejects in the end; it waits
\* neither for its cache write or its durable stores to settle nor, once a
\* branch has rejected, for the branches still running.
C37_Terminates ==
    (result.status = "pending") ~> (pc = "done" /\ result.status \in {"resolved", "rejected"})

\* the call has rejected with a processPdf branch still running and no
\* cache write issued
C37_Witness ==
    /\ pc = "done"
    /\ result.status = "rejected"
    /\ \E u \in Urls : bst[u] = "todo"
    /\ "loadError" \in log
    /\ nCalls = 1
    /\ pendingWrites = {}

\* ----------------------------------- C38 (getEmbeddingWithCache protocol)

\* the kinds of the calls the current call has made so far, in order
TraceKinds == [i \in 1..Len(gew.trace) |-> gew.trace[i][1]]

InvalidArguments ==
    \/ InvalidQuery(gew.query)
    \/ InvalidCache(gew.cache)
    \/ InvalidFunction(gew.fn)

\* C38: a getEmbeddingWithCache call with an invalid argument (an empty or
\* non-string query, a cache without get or set, no embedding function)
\* throws without any call to the cache or to the embedding function; a
\* call that finds a value in the cache returns that value with source
\* "cache" after the one get and without calling the embedding function; a
\* call that returns with source "generated" has called get, then the
\* embedding function exactly once, then set with the key of the get and
\* the embedding it returns, and the cache holds that embedding under that
\* key; no call makes its calls in any other order.
C38_CacheProtocol ==
    /\ TraceKinds \in {<<>>, <<"get">>, <<"get", "embed">>, <<"get", "embed", "set">>}
    /\ \A i \in 1..Len(gew.trace) :
           gew.trace[i][1] \in {"get", "set"} => gew.trace[i][2] = gew.key
    /\ (gew.n > 0 /\ InvalidArguments) =>
           /\ gew.pos = "done"
           /\ gew.result.status = "threw"
           /\ gew.trace = <<>>
    /\ gew.trace # <<>> => ~InvalidArguments
    /\ gew.result.status = "returned" =>
           /\ gew.pos = "done"
           /\ gew.result.cacheKey = gew.key
           /\ gew.result.embedding # Null
           /\ gew.result.embedding = CacheValue(gew.store, gew.key)
           /\ gew.result.source \in {"cache", "generated"}
           /\ gew.result.source = "cache" => TraceKinds = <<"get">>
           /\ gew.result.source = "generated" =>
                  /\ TraceKinds = <<"get", "embed", "set">>
                  /\ gew.trace[3][3] = gew.result.embedding
                  /\ gew.result.embedding = EmbeddingOf(gew.query, gew.context)
    /\ (gew.pos = "done" /\ TraceKinds = <<"get">> /\ gew.result.status = "returned")
           => gew.result.source = "cache"

\* the second call asked "q p" and was returned, from the cache, the
\* embedding the first call had generated for "p q"
C38_Witness ==
    /\ gew.n = 2
    /\ gew.pos = "done"
    /\ gew.result.status = "returned"
    /\ gew.result.source = "cache"
    /\ gew.query.text = <<"q", " ", "p">>
    /\ gew.result.embedding = EmbeddingOf([type |-> "string", text |-> <<"p", " ", "q">>], gew.context)

\* -------------------------------------- C39 (RedisEmbeddingCache round trip)

\* the value a set of key that succeeded wrote, null when the guarantee of
\* that set has ended
WrittenValue(key) ==
    IF \E w \in rcache.written : w.key = key
    THEN (CHOOSE w \in rcache.written : w.key = key).value
    ELSE Null

\* C39: with and without the compress option, after a set(k, v) that
\* succeeded get(k) returns v, and has(k) returns true, until the entry
\* expires, delete(k) is called or set(k, ...) is called again; has(k)
\* returns true exactly while Redis holds an entry under the key; get
\* returns null for a key without entry and for an entry that is not JSON,
\* and get throws only when the Redis client call itself rejects.
C39_RoundTrip ==
    LET l == rcache.last
        rk == getRedisKey(l.key)
    IN  /\ \A w \in rcache.written :
               /\ RedisHas(rcache.redis, getRedisKey(w.key))
               /\ RedisEntry(rcache.redis, getRedisKey(w.key)).text
                      = WrapValue(w.value, rcache.compress)
        /\ l.op = "get" =>
               /\ l.status = "threw" <=> ~l.clientOk
               /\ (l.clientOk /\ WrittenValue(l.key) # Null) =>
                      l.value = WrittenValue(l.key)
               /\ (l.clientOk /\ ~RedisHas(rcache.redis, rk)) => l.value = Null
               /\ (l.clientOk /\ RedisHas(rcache.redis, rk)
                      /\ ~RedisEntry(rcache.redis, rk).text.json) => l.value = Null
        /\ (l.op = "has" /\ l.clientOk) =>
               /\ l.value = <<1>> <=> RedisHas(rcache.redis, rk)
               /\ WrittenValue(l.key) # Null => l.value = <<1>>

\* with the compress option set, get has returned the vector a set that
\* succeeded had written under k1, while k2 holds a text that is not JSON
C39_Witness ==
    /\ rcache.compress
    /\ rcache.last.op = "get"
    /\ rcache.last.key = "k1"
    /\ rcache.last.status = "returned"
    /\ rcache.last.value = <<1, 2>>
    /\ WrittenValue("k1") = <<1, 2>>
    /\ RedisHas(rcache.redis, getRedisKey("k2"))
    /\ ~RedisEntry(rcache.redis, getRedisKey("k2")).text.json

====
